---- MODULE Spec2Model ----
(***************************************************************************)
(* Terminal rendering fallback engine of vvk-charts-mcp                    *)
(* (src/src/vvk_charts_mcp/terminal/renderer.py, terminal/themes.py).      *)
(*                                                                         *)
(* Text is a sequence of characters, each character a string: "ESC" is     *)
(* \x1B, "NL" the line feed, "TAB" the tab, "DQUOTE" the double quote,     *)
(* "BACKSLASH" the backslash, "BACKTICK" the grave accent, "U+2581" to     *)
(* "U+2588" the block glyphs, and                                          *)
(* every other character is written as itself.  A Python float is kept as  *)
(* an integer number of tenths (35 is 3.5).                                *)
(***************************************************************************)
EXTENDS Integers, Sequences, FiniteSets, TLC

VARIABLES env, call, result, plotextLog, monoLog, panelLog, panelCalls, rendered, session, canvas, loop

vars == <<env, call, result, plotextLog, monoLog, panelLog, panelCalls, rendered,
          session, canvas, loop>>

(***************************************************************************)
(* Bounds of the model.                                                    *)
(***************************************************************************)
MaxPanels == 2

\* the most rows of a bar chart rendered on its own
MaxRows == 2

\* the most values of a sparkline drawn on its own
MaxValues == 3

(***************************************************************************)
(* Text helpers.                                                           *)
(***************************************************************************)
Repeat(c, n) == IF n <= 0 THEN <<>> ELSE [i \in 1..n |-> c]

Max(a, b) == IF a >= b THEN a ELSE b

Min(a, b) == IF a <= b THEN a ELSE b

\* text[:n] for n >= 0
Prefix(text, n) == SubSeq(text, 1, Min(n, Len(text)))

\* f"{text:<n}": pad with spaces on the right up to n characters, never cut
PadRight(text, n) == text \o Repeat(" ", n - Len(text))

Uppers == <<"A", "B", "C", "D", "E", "F", "G", "H", "I", "J", "K", "L", "M",
            "N", "O", "P", "Q", "R", "S", "T", "U", "V", "W", "X", "Y", "Z">>

Lowers == <<"a", "b", "c", "d", "e", "f", "g", "h", "i", "j", "k", "l", "m",
            "n", "o", "p", "q", "r", "s", "t", "u", "v", "w", "x", "y", "z">>

LowerChar(c) ==
    IF \E i \in 1..Len(Uppers) : Uppers[i] = c
    THEN Lowers[CHOOSE i \in 1..Len(Uppers) : Uppers[i] = c]
    ELSE c

\* str.lower()
Lower(text) == [i \in 1..Len(text) |-> LowerChar(text[i])]

Whitespace == {" ", "NL", "TAB"}

\* str.rstrip()
RECURSIVE RStrip(_)
RStrip(text) ==
    IF text # <<>> /\ text[Len(text)] \in Whitespace
    THEN RStrip(SubSeq(text, 1, Len(text) - 1))
    ELSE text

(***************************************************************************)
(* The process environment: os.environ restricted to NO_COLOR and TERM.    *)
(* A variable is unset ([set |-> FALSE]) or holds a text.                  *)
(***************************************************************************)
Unset == [set |-> FALSE, val |-> <<>>]

Value(text) == [set |-> TRUE, val |-> text]

NoColorValues == {Unset, Value(<<>>), Value(<<"1">>)}

TermValues == {Unset, Value(<<"d", "u", "m", "b">>), Value(<<"D", "u", "M", "B">>),
               Value(<<"x", "t", "e", "r", "m">>)}

\* a variant that keeps the value read by the previous call in the process
getenv_cached(name) == IF session # <<>> THEN session[1].env[name] ELSE env[name]

\* os.getenv(name): None (here Unset) or the value
getenv(name) == env[name]

\* os.getenv(name, default)
getenv_default(name, default) == IF env[name].set THEN env[name].val ELSE default

\* truth value of an Optional[str]: None and "" are false
Truthy(v) == v.set /\ v.val # <<>>

\* a variant of the color policy that does not look at force_mono
should_use_color_ignoring_force(use_color, force_mono) ==
    IF ~use_color THEN FALSE
    ELSE IF Truthy(getenv("NO_COLOR")) THEN FALSE
    ELSE IF Lower(getenv_default("TERM", <<>>)) = <<"d", "u", "m", "b">> THEN FALSE
    ELSE TRUE

\* a variant of the color policy that takes NO_COLOR set to the empty string as set
should_use_color_no_color_present(use_color, force_mono) ==
    IF force_mono THEN FALSE
    ELSE IF ~use_color THEN FALSE
    ELSE IF getenv("NO_COLOR").set THEN FALSE
    ELSE IF Lower(getenv_default("TERM", <<>>)) = <<"d", "u", "m", "b">> THEN FALSE
    ELSE TRUE

should_use_color(use_color, force_mono) ==
    IF force_mono THEN FALSE
    ELSE IF ~use_color THEN FALSE
    ELSE IF Truthy(getenv("NO_COLOR")) THEN FALSE
    ELSE IF Lower(getenv_default("TERM", <<>>)) = <<"d", "u", "m", "b">> THEN FALSE
    ELSE TRUE

(***************************************************************************)
(* strip_ansi removes every match of ANSI_RE: ESC, "[", any number of      *)
(* parameter characters 0-?, any number of intermediate characters from    *)
(* space to "/", and one final character from "@" to "~".                  *)
(***************************************************************************)
ParamChars == {"0", "1", "2", "3", "4", "5", "6", "7", "8", "9",
               ":", ";", "<", "=", ">", "?"}

InterChars == {" ", "!", "DQUOTE", "#", "$", "%", "&", "'", "(", ")", "*", "+",
               ",", "-", ".", "/"}

FinalChars == {Uppers[i] : i \in 1..Len(Uppers)} \cup {Lowers[i] : i \in 1..Len(Lowers)}
              \cup {"@", "[", "BACKSLASH", "]", "^", "_", "BACKTICK", "{", "|", "}", "~"}

\* the first index >= i of text whose character is not in class (Len+1 at the end)
RECURSIVE SkipClass(_, _, _)
SkipClass(text, i, class) ==
    IF i <= Len(text) /\ text[i] \in class THEN SkipClass(text, i + 1, class) ELSE i

\* the index of the last character of the match of ANSI_RE starting at i, 0 if none
AnsiMatchEnd(text, i) ==
    IF i + 1 <= Len(text) /\ text[i] = "ESC" /\ text[i + 1] = "["
    THEN LET k == SkipClass(text, SkipClass(text, i + 2, ParamChars), InterChars)
         IN  IF k <= Len(text) /\ text[k] \in FinalChars THEN k ELSE 0
    ELSE 0

RECURSIVE StripFrom(_, _)
StripFrom(text, i) ==
    IF i > Len(text) THEN <<>>
    ELSE LET e == AnsiMatchEnd(text, i)
         IN  IF e > 0 THEN StripFrom(text, e + 1)
             ELSE <<text[i]>> \o StripFrom(text, i + 1)

strip_ansi_identity(text) == text

strip_ansi(text) == StripFrom(text, 1)

(***************************************************************************)
(* Python values as the JSON arguments carry them.  t is the type:         *)
(* "none", "int" (n), "bigint" (an int beyond the range of float),         *)
(* "float" (n tenths), "str" (s), "list" (items); "absent" marks a key     *)
(* that a mapping does not hold.                                           *)
(***************************************************************************)
PyVal(t, n, s, items) == [t |-> t, n |-> n, s |-> s, items |-> items]

Absent == PyVal("absent", 0, <<>>, <<>>)

None == PyVal("none", 0, <<>>, <<>>)

PyInt(n) == PyVal("int", n, <<>>, <<>>)

BigInt == PyVal("bigint", 0, <<>>, <<>>)

PyFloat(tenths) == PyVal("float", tenths, <<>>, <<>>)

PyStr(s) == PyVal("str", 0, s, <<>>)

PyList(items) == PyVal("list", 0, <<>>, items)

\* dict.get(key, default) on the value found under the key
Get(v, default) == IF v.t = "absent" THEN default ELSE v

\* bool(v)
PyTruthy(v) ==
    CASE v.t = "none" -> FALSE
      [] v.t = "int" -> v.n # 0
      [] v.t = "float" -> v.n # 0
      [] v.t = "str" -> v.s # <<>>
      [] v.t = "list" -> v.items # <<>>
      [] OTHER -> TRUE

Iterable(v) == v.t \in {"list", "str"}

\* list(v) for an iterable v: a str gives its characters
Iterate(v) == IF v.t = "list" THEN v.items ELSE [i \in 1..Len(v.s) |-> PyStr(<<v.s[i]>>)]

DigitChars == <<"0", "1", "2", "3", "4", "5", "6", "7", "8", "9">>

IsDigit(c) == \E i \in 1..10 : DigitChars[i] = c

DigitVal(c) == (CHOOSE i \in 1..10 : DigitChars[i] = c) - 1

RECURSIVE NatText(_)
NatText(n) ==
    IF n < 10 THEN <<DigitChars[n + 1]>> ELSE NatText(n \div 10) \o <<DigitChars[(n % 10) + 1]>>

Abs(n) == IF n < 0 THEN -n ELSE n

Sign(n) == IF n < 0 THEN <<"-">> ELSE <<>>

IntText(n) == Sign(n) \o NatText(Abs(n))

RECURSIVE TextNat(_)
TextNat(s) == IF s = <<>> THEN 0 ELSE TextNat(SubSeq(s, 1, Len(s) - 1)) * 10 + DigitVal(s[Len(s)])

\* repr of a float held in tenths: 15 is "1.5"
FloatText(sign, mag) == sign \o NatText(mag \div 10) \o <<".", DigitChars[(mag % 10) + 1]>>

\* str(v)
Str(v) ==
    CASE v.t = "str" -> v.s
      [] v.t = "int" -> IntText(v.n)
      [] v.t = "float" -> FloatText(Sign(v.n), Abs(v.n))
      [] v.t = "bigint" -> <<"1">> \o Repeat("0", 400)
      [] OTHER -> <<"N", "o", "n", "e">>

\* f"{x:.2f}" of a float held in tenths
Format2f(x) == FloatText(Sign(x), Abs(x)) \o <<"0">>

(***************************************************************************)
(* float(v).  A string converts when it is an optional sign, digits and an *)
(* optional point with digits (here with at most one digit after the       *)
(* point, the precision of the model); other strings are a ValueError.     *)
(***************************************************************************)
Ok(val) == [ok |-> TRUE, exc |-> "", val |-> val]

Raise(exc) == [ok |-> FALSE, exc |-> exc, val |-> 0]

FirstDot(s) == IF \E i \in 1..Len(s) : s[i] = "."
               THEN CHOOSE i \in 1..Len(s) : s[i] = "." /\ \A j \in 1..(i - 1) : s[j] # "."
               ELSE 0

AllDigits(s) == \A i \in 1..Len(s) : IsDigit(s[i])

\* the value of sign, integer part ip and fractional part fp
ParseParts(negative, ip, fp) ==
    IF AllDigits(ip \o fp) /\ Len(ip) + Len(fp) >= 1 /\ Len(fp) <= 1
    THEN Ok((IF negative THEN -1 ELSE 1) * (TextNat(ip) * 10 + TextNat(fp)))
    ELSE Raise("ValueError")

ParseUnsigned(negative, body, dot) ==
    IF dot = 0 THEN ParseParts(negative, body, <<>>)
    ELSE ParseParts(negative, SubSeq(body, 1, dot - 1), SubSeq(body, dot + 1, Len(body)))

ParseSigned(negative, body) == ParseUnsigned(negative, body, FirstDot(body))

ParseFloat(s) ==
    IF s # <<>> /\ s[1] \in {"-", "+"} THEN ParseSigned(s[1] = "-", Tail(s))
    ELSE ParseSigned(FALSE, s)

float(v) ==
    CASE v.t = "int" -> Ok(v.n * 10)
      [] v.t = "float" -> Ok(v.n)
      [] v.t = "str" -> ParseFloat(v.s)
      [] v.t = "bigint" -> Raise("OverflowError")
      [] OTHER -> Raise("TypeError")

\* except (TypeError, ValueError): return 0.0
CatchTypeValue(r) ==
    IF r.ok THEN r
    ELSE IF r.exc \in {"TypeError", "ValueError"} THEN Ok(0)
    ELSE r

_safe_float(value) == CatchTypeValue(float(value))

\* the index of the first result that is an error
FirstFailure(rs) == CHOOSE i \in 1..Len(rs) : ~rs[i].ok /\ \A j \in 1..(i - 1) : rs[j].ok

\* a list comprehension over results: the values, or the first error raised
Collect(rs) ==
    IF \E i \in 1..Len(rs) : ~rs[i].ok
    THEN Raise(rs[FirstFailure(rs)].exc)
    ELSE Ok([i \in 1..Len(rs) |-> rs[i].val])

\* [_safe_float(v) for v in values]
SafeFloats(values) == Collect([i \in 1..Len(values) |-> _safe_float(values[i])])

\* list(range(1, length + 1)), as floats
Positions(length) == [i \in 1..length |-> i * 10]

\* try: [float(v) for v in values]  except (TypeError, ValueError): positions
CatchToPositions(r, length) ==
    IF r.ok THEN r
    ELSE IF r.exc \in {"TypeError", "ValueError"} THEN Ok(Positions(length))
    ELSE r

Floats(values) == Collect([i \in 1..Len(values) |-> float(values[i])])

_x_for_plotext(values, length) ==
    IF ~PyTruthy(values) THEN Ok(Positions(length))
    ELSE IF ~Iterable(values) THEN Ok(Positions(length))
    ELSE CatchToPositions(Floats(Iterate(values)), length)

SeqMin(xs) == CHOOSE m \in {xs[i] : i \in 1..Len(xs)} : \A i \in 1..Len(xs) : m <= xs[i]

SeqMax(xs) == CHOOSE m \in {xs[i] : i \in 1..Len(xs)} : \A i \in 1..Len(xs) : m >= xs[i]

Ticks == <<"U+2581", "U+2582", "U+2583", "U+2584", "U+2585", "U+2586", "U+2587", "U+2588">>

\* the glyphs of values scaled between lo and hi, lo < hi
Scaled(values, lo, hi) ==
    [i \in 1..Len(values) |-> Ticks[(((values[i] - lo) * (Len(Ticks) - 1)) \div (hi - lo)) + 1]]

\* a variant that takes two floats as close only when they are equal
IsClose_exact(lo, hi) == lo = hi

\* math.isclose(lo, hi): abs(lo - hi) <= 1e-09 * max(abs(lo), abs(hi)), on floats
\* in tenths.  A difference within a rounding error of the tolerance itself is
\* decided by the doubles; the values the model draws stay away from it.
IsClose(lo, hi) ==
    (IF lo < hi THEN hi - lo ELSE lo - hi)
        <= (IF Abs(lo) < Abs(hi) THEN Abs(hi) ELSE Abs(lo)) \div 1000000000

SparkBetween(values, lo, hi) ==
    IF IsClose(lo, hi) THEN Repeat(Ticks[1], Len(values)) ELSE Scaled(values, lo, hi)

_sparkline(values) ==
    IF values = <<>> THEN <<>> ELSE SparkBetween(values, SeqMin(values), SeqMax(values))

(***************************************************************************)
(* Themes (terminal/themes.py).  A theme argument is None, a name or a     *)
(* mapping with optional keys name, colors and mono_symbol.                *)
(***************************************************************************)
DarkCorporateCli == <<"d", "a", "r", "k", "_", "c", "o", "r", "p", "o", "r", "a", "t", "e",
      "_", "c", "l", "i">>

PastelStartupCli == <<"p", "a", "s", "t", "e", "l", "_", "s", "t", "a", "r", "t", "u", "p",
      "_", "c", "l", "i">>

CustomCliTheme == <<"c", "u", "s", "t", "o", "m", "_", "c", "l", "i", "_", "t", "h", "e",
      "m", "e">>

Blue == <<"b", "l", "u", "e">>

Green == <<"g", "r", "e", "e", "n">>

Yellow == <<"y", "e", "l", "l", "o", "w">>

Magenta == <<"m", "a", "g", "e", "n", "t", "a">>

Cyan == <<"c", "y", "a", "n">>

White == <<"w", "h", "i", "t", "e">>

Theme(name, colors, mono_symbol) == [name |-> name, colors |-> colors, mono_symbol |-> mono_symbol]

\* CLI_THEMES["dark_corporate_cli"]
DarkTheme == Theme(DarkCorporateCli, <<Blue, Green, Yellow, Magenta, Cyan, White>>, <<"#">>)

\* CLI_THEMES["pastel_startup_cli"]
PastelTheme == Theme(PastelStartupCli, <<Cyan, Magenta, Yellow, Green, Blue, White>>, <<"*">>)

\* CLI_THEMES[DEFAULT_CLI_THEME]
DefaultTheme == DarkTheme

ThemeNone == [t |-> "none", s |-> <<>>, name |-> Absent, colors |-> Absent, mono_symbol |-> Absent]

ThemeName(s) == [t |-> "str", s |-> s, name |-> Absent, colors |-> Absent, mono_symbol |-> Absent]

ThemeDict(name, colors, mono_symbol) ==
    [t |-> "dict", s |-> <<>>, name |-> name, colors |-> colors, mono_symbol |-> mono_symbol]

\* colors = theme.get("colors"), the default colors unless a non-empty list;
\* then [str(c) for c in colors]
ThemeColors(given) ==
    IF given.t # "list" \/ given.items = <<>> THEN DefaultTheme.colors
    ELSE [i \in 1..Len(given.items) |-> Str(given.items[i])]

\* text or "#"
OrHash(text) == IF text = <<>> THEN <<"#">> ELSE text

\* a variant that keeps the whole glyph
MonoSymbol_untruncated(given) == OrHash(Str(Get(given, PyStr(<<"#">>))))

\* str(theme.get("mono_symbol", "#"))[:1] or "#"
MonoSymbol(given) == OrHash(Prefix(Str(Get(given, PyStr(<<"#">>))), 1))

resolve_cli_theme(theme) ==
    IF theme.t = "none" THEN DefaultTheme
    ELSE IF theme.t = "str"
    THEN IF theme.s = DarkCorporateCli THEN DarkTheme
         ELSE IF theme.s = PastelStartupCli THEN PastelTheme
         ELSE DefaultTheme
    ELSE Theme(Str(Get(theme.name, PyStr(CustomCliTheme))),
               ThemeColors(Get(theme.colors, None)),
               MonoSymbol(theme.mono_symbol))

(***************************************************************************)
(* Series and the Monochrome Renderer (_render_mono_chart).  A series is a *)
(* mapping with optional keys name, x and y, or a value that is no mapping *)
(* (here a str).  An optional string argument (title, labels) is Unset for *)
(* None or Value(text).                                                    *)
(***************************************************************************)
Series(name, x, y) == [mapping |-> TRUE, name |-> name, x |-> x, y |-> y]

NotAMapping == [mapping |-> FALSE, name |-> Absent, x |-> Absent, y |-> Absent]

\* the outcome of a step that returns a value or raises
Done(val) == [ok |-> TRUE, exc |-> "", msg |-> <<>>, val |-> val]

Err(exc, msg) == [ok |-> FALSE, exc |-> exc, msg |-> msg, val |-> <<>>]

\* the error of the first failing step
FailureOf(rs) == Err(rs[FirstFailure(rs)].exc, rs[FirstFailure(rs)].msg)

AnyFailure(rs) == \E i \in 1..Len(rs) : ~rs[i].ok

MsgNoGet == <<"'", "s", "t", "r", "'", " ", "o", "b", "j", "e", "c", "t", " ", "h",
      "a", "s", " ", "n", "o", " ", "a", "t", "t", "r", "i", "b", "u", "t",
      "e", " ", "'", "g", "e", "t", "'">>

MsgOverflow == <<"i", "n", "t", " ", "t", "o", "o", " ", "l", "a", "r", "g", "e", " ",
      "t", "o", " ", "c", "o", "n", "v", "e", "r", "t", " ", "t", "o", " ",
      "f", "l", "o", "a", "t">>

MsgObjectNotIterable == <<" ", "o", "b", "j", "e", "c", "t", " ", "i", "s", " ", "n", "o", "t",
      " ", "i", "t", "e", "r", "a", "b", "l", "e">>

SeriesPrefix == <<"S", "e", "r", "i", "e", "s", " ">>

NoData == <<" ", "(", "n", "o", " ", "d", "a", "t", "a", ")">>

MinLabel == <<" ", " ", "m", "i", "n", "=">>

MaxLabel == <<" ", "m", "a", "x", "=">>

UnsupportedPrefix == <<"U", "n", "s", "u", "p", "p", "o", "r", "t", "e", "d", " ", "t", "e",
      "r", "m", "i", "n", "a", "l", " ", "c", "h", "a", "r", "t", " ", "t",
      "y", "p", "e", ":", " ">>

\* the chart kinds, as the texts the caller passes
LineKind == <<"l", "i", "n", "e">>

BarKind == <<"b", "a", "r">>

ScatterKind == <<"s", "c", "a", "t", "t", "e", "r">>

AreaKind == <<"a", "r", "e", "a">>

PieKind == <<"p", "i", "e">>

TypeName(v) ==
    CASE v.t = "none" -> <<"N", "o", "n", "e", "T", "y", "p", "e">>
      [] v.t \in {"int", "bigint"} -> <<"i", "n", "t">>
      [] v.t = "float" -> <<"f", "l", "o", "a", "t">>
      [] v.t = "str" -> <<"s", "t", "r">>
      [] OTHER -> <<"l", "i", "s", "t">>

\* str(TypeError) of iterating a value that is not iterable
NotIterableMsg(v) == <<"'">> \o TypeName(v) \o <<"'">> \o MsgObjectNotIterable

\* "\n".join(lines)
RECURSIVE JoinLines(_)
JoinLines(lines) ==
    IF lines = <<>> THEN <<>>
    ELSE IF Len(lines) = 1 THEN lines[1]
    ELSE lines[1] \o <<"NL">> \o JoinLines(Tail(lines))

\* the floats of a comprehension as a step outcome (the only error of _safe_float
\* that propagates is the OverflowError)
FloatsStep(ys) == IF ys.ok THEN Done(ys.val) ELSE Err(ys.exc, MsgOverflow)

\* [_safe_float(v) for v in raw]
YFrom(raw) ==
    IF ~Iterable(raw) THEN Err("TypeError", NotIterableMsg(raw))
    ELSE FloatsStep(SafeFloats(Iterate(raw)))

\* [_safe_float(v) for v in series.get("y", [])]
SeriesY(series) == YFrom(Get(series.y, PyList(<<>>)))

\* spark cut to the width (renderer.py 83-84)
Clip(spark, width) ==
    IF Len(spark) > width - 20
    THEN Prefix(spark, Max(8, width - 23)) \o <<".", ".", ".">>
    ELSE spark

\* the row of a series with its name and y values (renderer.py 82-88)
SparkLine(name, ys, width) ==
    IF ~ys.ok THEN ys
    ELSE IF ys.val # <<>>
    THEN Done(PadRight(name, 18) \o <<" ">> \o Clip(_sparkline(ys.val), width) \o MinLabel
              \o Format2f(SeqMin(ys.val)) \o MaxLabel \o Format2f(SeqMax(ys.val)))
    ELSE Done(PadRight(name, 18) \o NoData)

\* one row of the line/scatter/area output (renderer.py 79-88)
SparkRow(series, idx, width) ==
    IF ~series.mapping THEN Err("AttributeError", MsgNoGet)
    ELSE SparkLine(Str(Get(series.name, PyStr(SeriesPrefix \o NatText(idx)))),
                   SeriesY(series), width)

\* zip(x_vals, y_vals) as (str(x), y) rows
Zip(xs, ys) ==
    [i \in 1..Min(Len(xs), Len(ys)) |-> [label |-> Str(xs[i]), value |-> ys[i]]]

BarPairsOf(xraw, ys) ==
    IF ~ys.ok THEN ys
    ELSE IF ~Iterable(xraw) THEN Err("TypeError", NotIterableMsg(xraw))
    ELSE Done(Zip(Iterate(xraw), ys.val))

\* the (label, value) rows of one series of a bar chart (renderer.py 94-99)
BarPairs(series) ==
    IF ~series.mapping THEN Err("AttributeError", MsgNoGet)
    ELSE BarPairsOf(Get(series.x, PyList(<<>>)), SeriesY(series))

RECURSIVE Concat(_)
Concat(seqs) ==
    IF seqs = <<>> THEN <<>>
    ELSE IF Len(seqs) = 1 THEN seqs[1]
    ELSE Concat(SubSeq(seqs, 1, Len(seqs) \div 2))
         \o Concat(SubSeq(seqs, (Len(seqs) \div 2) + 1, Len(seqs)))

\* the ratios p / q and the bar widths for which the double (p / q) * bar_width
\* falls just below the integer that the exact product is: (15.0 / 22.0) * 22
\* is 14.999999999999998.  These are all of them for integer values of
\* magnitude up to 60 and the bar widths 10, 12 and 22, the values and widths
\* the model draws.
ShortRatios == { <<15, 11, 22>>, <<15, 22, 22>>, <<30, 11, 22>>, <<49, 11, 22>>,
                 <<49, 22, 22>>, <<60, 11, 22>> }

FloatShort(mag, max_val, bar_width) ==
    \E r \in ShortRatios : r[3] = bar_width /\ mag * r[2] = max_val * r[1]

\* int(x) of the double x = (mag / max_val) * bar_width, mag >= 0
FloatTrunc(mag, max_val, bar_width) ==
    ((mag * bar_width) \div max_val) - (IF FloatShort(mag, max_val, bar_width) THEN 1 ELSE 0)

\* size = int((value / max_val) * bar_width) if max_val > 0 else 0
BarSize(value, max_val, bar_width) ==
    IF max_val <= 0 THEN 0
    ELSE IF value >= 0 THEN FloatTrunc(value, max_val, bar_width)
    ELSE -FloatTrunc(-value, max_val, bar_width)

\* bar = mono_symbol * max(1, size)
Bar(mono_symbol, size) == Concat([i \in 1..Max(1, size) |-> mono_symbol])

\* one row of the bar output (renderer.py 103-105)
BarRow(row, max_val, bar_width, mono_symbol) ==
    PadRight(Prefix(row.label, 14), 14) \o <<" ", "|", " ">>
    \o PadRight(Bar(mono_symbol, BarSize(row.value, max_val, bar_width)), bar_width)
    \o <<" ">> \o Format2f(row.value)

\* max_val after the loop over all rows, from 0.0
MaxVal(rows) == SeqMax(<<0>> \o [i \in 1..Len(rows) |-> rows[i].value])

BarRows(shown, max_val, bar_width, mono_symbol) ==
    [i \in 1..Len(shown) |-> BarRow(shown[i], max_val, bar_width, mono_symbol)]

\* the bar lines of all rows (renderer.py 101-105)
BarLines(rows, width, height, mono_symbol) ==
    BarRows(Prefix(rows, Max(5, height * 2)), MaxVal(rows), Max(10, width - 28), mono_symbol)

\* the title lines (renderer.py 74-76)
TitleLines(title, width) ==
    IF Truthy(title) THEN <<title.val, Repeat("-", Min(Len(title.val), width))>> ELSE <<>>

\* the axis label lines (renderer.py 110-115)
LabelLines(x_label, y_label) ==
    (IF Truthy(x_label) \/ Truthy(y_label) THEN <<(<<>>)>> ELSE <<>>)
    \o (IF Truthy(x_label) THEN <<(<<"X", ":", " ">> \o x_label.val)>> ELSE <<>>)
    \o (IF Truthy(y_label) THEN <<(<<"Y", ":", " ">> \o y_label.val)>> ELSE <<>>)

\* the text of the chart with these body lines
Framed(body, title, x_label, y_label, width) ==
    Done(JoinLines(TitleLines(title, width) \o body \o LabelLines(x_label, y_label)))

SparkChart(rs, title, x_label, y_label, width) ==
    IF AnyFailure(rs) THEN FailureOf(rs)
    ELSE Framed([i \in 1..Len(rs) |-> rs[i].val], title, x_label, y_label, width)

BarChart(rs, title, x_label, y_label, width, height, mono_symbol) ==
    IF AnyFailure(rs) THEN FailureOf(rs)
    ELSE Framed(BarLines(Concat([i \in 1..Len(rs) |-> rs[i].val]), width, height, mono_symbol),
                title, x_label, y_label, width)

_render_mono_chart(chart_type, data, title, x_label, y_label, width, height, mono_symbol) ==
    IF chart_type \in {LineKind, ScatterKind, AreaKind}
    THEN SparkChart([i \in 1..Len(data) |-> SparkRow(data[i], i, width)],
                    title, x_label, y_label, width)
    ELSE IF chart_type = BarKind
    THEN BarChart([i \in 1..Len(data) |-> BarPairs(data[i])],
                  title, x_label, y_label, width, height, mono_symbol)
    ELSE Framed(<<UnsupportedPrefix \o chart_type>>, title, x_label, y_label, width)

(***************************************************************************)
(* The ANSI Plot Adapter (_render_plotext_chart).  The plotting backend is *)
(* an external library: its behaviour during one invocation is an input,   *)
(* either the import failing, a drawing call failing (taken at the first   *)
(* plot call) with some message, or show() printing some text.             *)
(***************************************************************************)
BackendOk(out) == [kind |-> "ok", out |-> out, msg |-> <<>>]

BackendImportError(msg) == [kind |-> "import_error", out |-> <<>>, msg |-> msg]

BackendDrawError(msg) == [kind |-> "draw_error", out |-> <<>>, msg |-> msg]

MsgNoPlotext == <<"N", "o", " ", "m", "o", "d", "u", "l", "e", " ", "n", "a", "m", "e",
      "d", " ", "'", "p", "l", "o", "t", "e", "x", "t", "'">>

MsgBoom == <<"b", "o", "o", "m">>

SupportedKinds == {LineKind, BarKind, ScatterKind, AreaKind}

\* x_vals, then the dispatch on chart_type (renderer.py 137-150)
PlotX(xs, chart_type) ==
    IF ~xs.ok THEN Err(xs.exc, MsgOverflow)
    ELSE IF chart_type \notin SupportedKinds
    THEN Err("ValueError", UnsupportedPrefix \o chart_type)
    ELSE Done(<<>>)

PlotXY(ys, xraw, chart_type) ==
    IF ~ys.ok THEN ys ELSE PlotX(_x_for_plotext(xraw, Len(ys.val)), chart_type)

\* what the loop body does with one series before it calls the backend
\* (renderer.py 136-150)
PlotSeries(series, chart_type) ==
    IF ~series.mapping THEN Err("AttributeError", MsgNoGet)
    ELSE PlotXY(SeriesY(series), Get(series.x, PyList(<<>>)), chart_type)

\* the adapter's outcome given what each series does and what the backend does
Plotted(rs, backend) ==
    IF backend.kind = "import_error" THEN Err("ImportError", backend.msg)
    ELSE IF rs # <<>> /\ ~rs[1].ok THEN Err(rs[1].exc, rs[1].msg)
    ELSE IF rs # <<>> /\ backend.kind = "draw_error" THEN Err("Exception", backend.msg)
    ELSE IF AnyFailure(rs) THEN FailureOf(rs)
    ELSE IF backend.kind = "draw_error" THEN Err("Exception", backend.msg)
    ELSE Done(RStrip(backend.out))

_render_plotext_chart(chart_type, data, title, x_label, y_label, width, height, colors, backend) ==
    Plotted([i \in 1..Len(data) |-> PlotSeries(data[i], chart_type)], backend)

(***************************************************************************)
(* The Rendering Policy Engine (render_terminal_chart).  The outcome of a  *)
(* call is a returned dict, of which keys is the set of its keys, or a     *)
(* raised exception.                                                       *)
(***************************************************************************)
MsgChartType == <<"t", "e", "r", "m", "i", "n", "a", "l", " ", "c", "h", "a", "r", "t",
      " ", "t", "y", "p", "e", " ", "m", "u", "s", "t", " ", "b", "e", " ",
      "o", "n", "e", " ", "o", "f", ":", " ", "l", "i", "n", "e", ",", " ",
      "b", "a", "r", ",", " ", "s", "c", "a", "t", "t", "e", "r", ",", " ",
      "a", "r", "e", "a">>

MsgData == <<"'", "d", "a", "t", "a", "'", " ", "m", "u", "s", "t", " ", "b", "e",
      " ", "a", " ", "n", "o", "n", "-", "e", "m", "p", "t", "y", " ", "a",
      "r", "r", "a", "y">>

MsgTextMode == <<"'", "t", "e", "x", "t", "_", "m", "o", "d", "e", "'", " ", "m", "u",
      "s", "t", " ", "b", "e", " ", "o", "n", "e", " ", "o", "f", ":", " ",
      "a", "u", "t", "o", ",", " ", "p", "l", "o", "t", "e", "x", "t", "_",
      "s", "t", "r", "i", "p", "p", "e", "d", ",", " ", "f", "a", "l", "l",
      "b", "a", "c", "k">>

MsgPanels == <<"'", "p", "a", "n", "e", "l", "s", "'", " ", "m", "u", "s", "t", " ",
      "b", "e", " ", "a", " ", "n", "o", "n", "-", "e", "m", "p", "t", "y",
      " ", "a", "r", "r", "a", "y">>

Raised(exc, msg) ==
    [status |-> "raised", exc |-> exc, msg |-> msg, keys |-> {}, success |-> FALSE,
     render_mode |-> "", engine |-> "", theme |-> <<>>, chart |-> <<>>,
     dashboard |-> <<>>, fallback_reason |-> <<>>]

ChartKeys == {"success", "render_mode", "engine", "theme", "chart"}

Returned(render_mode, engine, theme, chart) ==
    [status |-> "returned", exc |-> "", msg |-> <<>>, keys |-> ChartKeys, success |-> TRUE,
     render_mode |-> render_mode, engine |-> engine, theme |-> theme, chart |-> chart,
     dashboard |-> <<>>, fallback_reason |-> <<>>]

NoCall == [status |-> "none", exc |-> "", msg |-> <<>>, keys |-> {}, success |-> FALSE,
           render_mode |-> "", engine |-> "", theme |-> <<>>, chart |-> <<>>,
           dashboard |-> <<>>, fallback_reason |-> <<>>]

\* a variant of the validation that accepts every chart kind
Validate_without_kind(chart_type, data, text_mode) ==
    IF data = <<>> THEN Err("ValueError", MsgData)
    ELSE IF text_mode \notin {"auto", "plotext_stripped", "fallback"}
    THEN Err("ValueError", MsgTextMode)
    ELSE Done(<<>>)

\* the three validation preconditions (renderer.py 183-190): the error raised, or ok
Validate(chart_type, data, text_mode) ==
    IF chart_type \notin {LineKind, BarKind, ScatterKind, AreaKind}
    THEN Err("ValueError", MsgChartType)
    ELSE IF data = <<>> THEN Err("ValueError", MsgData)
    ELSE IF text_mode \notin {"auto", "plotext_stripped", "fallback"}
    THEN Err("ValueError", MsgTextMode)
    ELSE Done(<<>>)

\* a variant that attempts the adapter in every text mode
Tried_always(text_mode) == TRUE

\* whether the adapter is attempted (renderer.py 196)
Tried(text_mode) == text_mode # "fallback"

\* a variant that returns the adapter's text as it is when color is disabled
PlotextResult_unstripped(text_mode, ansi_enabled, theme, text) ==
    IF text_mode = "plotext_stripped"
    THEN Returned("mono", "plotext-stripped", theme.name, strip_ansi(text))
    ELSE IF ansi_enabled
    THEN Returned("ansi", "plotext", theme.name, text)
    ELSE Returned("mono", "plotext-stripped", theme.name, text)

\* a variant that asks the color policy before it looks at text_mode
PlotextResult_color_first(text_mode, ansi_enabled, theme, text) ==
    IF ansi_enabled
    THEN Returned("ansi", "plotext", theme.name, text)
    ELSE Returned("mono", "plotext-stripped", theme.name, strip_ansi(text))

\* the result after a successful adapter call (renderer.py 208-232)
PlotextResult(text_mode, ansi_enabled, theme, text) ==
    IF text_mode = "plotext_stripped"
    THEN Returned("mono", "plotext-stripped", theme.name, strip_ansi(text))
    ELSE IF ansi_enabled
    THEN Returned("ansi", "plotext", theme.name, text)
    ELSE Returned("mono", "plotext-stripped", theme.name, strip_ansi(text))

WithReason(res, reason) ==
    [res EXCEPT !.keys = res.keys \cup {"fallback_reason"}, !.fallback_reason = reason]

\* the result of the fallback path (renderer.py 246-255); plotext_error is Unset for None
FallbackResult(theme, text, plotext_error) ==
    IF Truthy(plotext_error)
    THEN WithReason(Returned("mono", "fallback", theme.name, text), plotext_error.val)
    ELSE Returned("mono", "fallback", theme.name, text)

\* the outcome of a call: the result, the outcomes of the adapter and of the
\* Monochrome Renderer invocations it made, in order, and (for a dashboard) the
\* results its panels returned and the title, width and height its panels were
\* rendered with, in order
Outcome(res, plotext, mono) ==
    [result |-> res, plotext |-> plotext, mono |-> mono, panels |-> <<>>, calls |-> <<>>]

\* after the Monochrome Renderer has run (renderer.py 236-255)
Fallen(mono, theme, plotext_error, log) ==
    IF ~mono.ok THEN Outcome(Raised(mono.exc, mono.msg), log, <<mono>>)
    ELSE Outcome(FallbackResult(theme, mono.val, plotext_error), log, <<mono>>)

Mono(req, theme) ==
    _render_mono_chart(req.chart_type, req.data, req.title, req.x_label, req.y_label,
                       req.width, req.height, theme.mono_symbol)

\* after the adapter has run (renderer.py 197-234)
Attempted(attempt, req, theme, ansi_enabled, text_mode) ==
    IF attempt.ok
    THEN Outcome(PlotextResult(text_mode, ansi_enabled, theme, attempt.val), <<attempt>>, <<>>)
    ELSE Fallen(Mono(req, theme), theme, Value(attempt.msg), <<attempt>>)

Plotext(req, theme, backend) ==
    _render_plotext_chart(req.chart_type, req.data, req.title, req.x_label, req.y_label,
                          req.width, req.height, theme.colors, backend)

\* after validation (renderer.py 192-255)
Checked(valid, req, theme, ansi_enabled, text_mode, backend) ==
    IF ~valid.ok THEN Outcome(Raised(valid.exc, valid.msg), <<>>, <<>>)
    ELSE IF Tried(text_mode)
    THEN Attempted(Plotext(req, theme, backend), req, theme, ansi_enabled, text_mode)
    ELSE Fallen(Mono(req, theme), theme, Unset, <<>>)

render_terminal_chart(chart_type, data, title, x_label, y_label, width, height, theme, use_color, force_mono, text_mode, backend) ==
    Checked(Validate(chart_type, data, text_mode),
            [chart_type |-> chart_type, data |-> data, title |-> title,
             x_label |-> x_label, y_label |-> y_label, width |-> width, height |-> height],
            resolve_cli_theme(theme), should_use_color(use_color, force_mono),
            text_mode, backend)

(***************************************************************************)
(* The process-global canvas of the plotting backend.  The canvas is the   *)
(* sequence of the labels of the series drawn on it since it was last      *)
(* cleared; plt.show() prints what the canvas holds, one colored line per  *)
(* series.  The adapter clears the canvas, then draws the series one by    *)
(* one; a series that raises leaves the earlier ones on the canvas.        *)
(***************************************************************************)
\* a variant that leaves the canvas as it finds it
clf_keeping(figure) == figure

\* plt.clf() (renderer.py 132)
clf(figure) == <<>>

\* label = str(series.get("name", f"Series {idx + 1}")) (renderer.py 138)
PlotLabel(series, idx) == Str(Get(series.name, PyStr(SeriesPrefix \o NatText(idx))))

\* the number of series drawn before the first one that raises
DrawnCount(data, chart_type) ==
    Cardinality({i \in 1..Len(data) : \A j \in 1..i : PlotSeries(data[j], chart_type).ok})

\* the canvas after the adapter has cleared it and drawn (renderer.py 132-150)
Drawn(figure, chart_type, data) ==
    clf(figure) \o [i \in 1..DrawnCount(data, chart_type) |-> PlotLabel(data[i], i)]

\* what plt.show() prints for a canvas (renderer.py 163-165)
show(figure) ==
    JoinLines([i \in 1..Len(figure) |->
                 <<"ESC", "[", "3", "4", "m">> \o figure[i] \o <<"ESC", "[", "0", "m">>])

\* the canvas after a call of render_terminal_chart that passed validation
CanvasAfter(figure, text_mode, drawn) == IF Tried(text_mode) THEN drawn ELSE figure

(***************************************************************************)
(* The Dashboard Compositor (render_terminal_dashboard).  A panel is a     *)
(* mapping with optional keys type, data, title, x_label and y_label; data *)
(* is a list of series.  backends[i] is what the backend does during the   *)
(* i-th panel's adapter invocation.                                        *)
(***************************************************************************)
Panel(type, has_data, data, title) ==
    [type |-> type, has_data |-> has_data, data |-> data, title |-> title,
     x_label |-> Absent, y_label |-> Absent]

PanelPrefix == <<"P", "a", "n", "e", "l", " ">>

\* an Optional[str] argument from panel.get(key)
Optional(v) == IF v.t = "str" THEN Value(v.s) ELSE Unset

\* panel.get("title") or f"Panel {idx}"
PanelTitle(v, idx) == IF PyTruthy(Get(v, None)) THEN Optional(v) ELSE Value(PanelPrefix \o NatText(idx))

\* a variant that divides the height without a minimum
PanelHeight_unclamped(height, count) == height \div Max(1, count)

\* height=max(10, height // max(1, len(panels)))
PanelHeight(height, count) == Max(10, height \div Max(1, count))

\* the title, width and height panel idx is rendered with (renderer.py 280-284)
PanelArgs(ctx, idx) ==
    [title |-> PanelTitle(ctx.panels[idx].title, idx),
     width |-> Max(40, ctx.width),
     height |-> PanelHeight(ctx.height, Len(ctx.panels))]

RenderWith(ctx, idx, args) ==
    render_terminal_chart(Str(Get(ctx.panels[idx].type, PyStr(LineKind))),
                          IF ctx.panels[idx].has_data THEN ctx.panels[idx].data ELSE <<>>,
                          args.title,
                          Optional(ctx.panels[idx].x_label),
                          Optional(ctx.panels[idx].y_label),
                          args.width, args.height,
                          ctx.theme, ctx.use_color, ctx.force_mono, ctx.text_mode,
                          ctx.backends[idx])

\* the call of render_terminal_chart for panel idx (renderer.py 277-289)
RenderPanel(ctx, idx) == RenderWith(ctx, idx, PanelArgs(ctx, idx))

\* the loop variables before the first panel (renderer.py 272-275)
LoopStart == [rendered |-> <<>>, mode |-> "ansi", engine_rank |-> 0,
              panel_fallback_reasons |-> <<>>, plotext |-> <<>>, mono |-> <<>>,
              panels |-> <<>>, calls |-> <<>>]

\* a variant in which the last panel's engine wins
RankAfter_last_wins(engine_rank, engine) ==
    IF engine = "fallback" THEN 2
    ELSE IF engine = "plotext-stripped" THEN 1
    ELSE 0

\* engine_rank after a panel's result (renderer.py 290-295)
RankAfter(engine_rank, engine) ==
    IF engine = "fallback" THEN Max(engine_rank, 2)
    ELSE IF engine = "plotext-stripped" THEN Max(engine_rank, 1)
    ELSE engine_rank

\* a mode that only a fallback panel turns to mono
ModeAfter_fallback_only(mode, engine) == IF engine = "fallback" THEN "mono" ELSE mode

\* mode after a panel's result (renderer.py 290-295)
ModeAfter(mode, engine) ==
    IF engine \in {"fallback", "plotext-stripped"} THEN "mono" ELSE mode

\* the loop variables after a panel has returned res (renderer.py 290-298)
Added(acc, out) ==
    [rendered |-> Append(acc.rendered, out.result.chart),
     mode |-> ModeAfter(acc.mode, out.result.engine),
     engine_rank |-> RankAfter(acc.engine_rank, out.result.engine),
     panel_fallback_reasons |->
        IF "fallback_reason" \in out.result.keys
        THEN Append(acc.panel_fallback_reasons, out.result.fallback_reason)
        ELSE acc.panel_fallback_reasons,
     plotext |-> acc.plotext \o out.plotext,
     mono |-> acc.mono \o out.mono,
     panels |-> Append(acc.panels, out.result),
     calls |-> acc.calls]

\* sep.join(texts)
RECURSIVE Join(_, _)
Join(sep, texts) ==
    IF texts = <<>> THEN <<>>
    ELSE IF Len(texts) = 1 THEN texts[1]
    ELSE texts[1] \o sep \o Join(sep, Tail(texts))

\* the engine of a rank (renderer.py 306-310)
EngineOf(engine_rank) ==
    IF engine_rank = 2 THEN "fallback"
    ELSE IF engine_rank = 1 THEN "plotext-stripped"
    ELSE "plotext"

\* the title blocks (renderer.py 301-303)
DashboardTitle(title, width) ==
    IF Truthy(title)
    THEN <<title.val, Repeat("=", Min(Max(Len(title.val), 12), width))>>
    ELSE <<>>

DashboardKeys == {"success", "render_mode", "engine", "theme", "dashboard"}

DashboardDict(mode, engine, theme, dashboard) ==
    [status |-> "returned", exc |-> "", msg |-> <<>>, keys |-> DashboardKeys,
     success |-> TRUE, render_mode |-> mode, engine |-> engine, theme |-> theme,
     chart |-> <<>>, dashboard |-> dashboard, fallback_reason |-> <<>>]

WithReasons(res, reasons) ==
    IF reasons # <<>> THEN WithReason(res, Join(<<";", " ">>, reasons)) ELSE res

\* the result after the loop (renderer.py 300-321)
Composed(ctx, acc) ==
    [Outcome(WithReasons(DashboardDict(acc.mode, EngineOf(acc.engine_rank),
                                       resolve_cli_theme(ctx.theme).name,
                                       JoinLines(DashboardTitle(ctx.title, ctx.width)
                                                 \o <<Join(<<"NL", "NL">>, acc.rendered)>>)),
                         acc.panel_fallback_reasons),
             acc.plotext, acc.mono) EXCEPT !.panels = acc.panels, !.calls = acc.calls]

RECURSIVE Loop(_, _, _)
\* a loop that skips a panel whose render raised
Step_skipping(ctx, idx, acc, out) ==
    IF out.result.status = "raised" THEN Loop(ctx, idx + 1, acc)
    ELSE Loop(ctx, idx + 1, Added(acc, out))

\* the loop from panel idx on, an exception of a panel ending the call
Step(ctx, idx, acc, out) ==
    IF out.result.status = "raised"
    THEN [Outcome(out.result, acc.plotext \o out.plotext, acc.mono \o out.mono)
          EXCEPT !.panels = acc.panels, !.calls = acc.calls]
    ELSE Loop(ctx, idx + 1, Added(acc, out))

Loop(ctx, idx, acc) ==
    IF idx > Len(ctx.panels) THEN Composed(ctx, acc)
    ELSE Step(ctx, idx, [acc EXCEPT !.calls = Append(@, PanelArgs(ctx, idx))],
              RenderPanel(ctx, idx))

\* a variant without the check of panels
Guarded_without_check(ctx) == Loop(ctx, 1, LoopStart)

\* the check of panels (renderer.py 269-270), then the loop
Guarded(ctx) ==
    IF ctx.panels = <<>> THEN Outcome(Raised("ValueError", MsgPanels), <<>>, <<>>)
    ELSE Loop(ctx, 1, LoopStart)

render_terminal_dashboard(panels, title, width, height, theme, use_color, force_mono, text_mode, backends) ==
    Guarded([panels |-> panels, title |-> title, width |-> width, height |-> height,
             theme |-> theme, use_color |-> use_color, force_mono |-> force_mono,
             text_mode |-> text_mode, backends |-> backends])

(***************************************************************************)
(* The tool dispatch (server.py, call_tool) for create_terminal_chart and  *)
(* create_terminal_dashboard.  An argument is Unset when its key is absent *)
(* and Value(v) otherwise.  json.dumps(obj, ensure_ascii=False, indent=2)  *)
(* writes an object as "{", one line '  "key": value' per member, with a   *)
(* comma after each but the last, and "}".                                 *)
(***************************************************************************)
\* the escape of a character inside a JSON string
JsonChar(c) ==
    CASE c = "DQUOTE" -> <<"BACKSLASH", "DQUOTE">>
      [] c = "BACKSLASH" -> <<"BACKSLASH", "BACKSLASH">>
      [] c = "NL" -> <<"BACKSLASH", "n">>
      [] c = "TAB" -> <<"BACKSLASH", "t">>
      [] c = "ESC" -> <<"BACKSLASH", "u", "0", "0", "1", "b">>
      [] OTHER -> <<c>>

RECURSIVE JsonChars(_)
JsonChars(text) ==
    IF text = <<>> THEN <<>>
    ELSE IF Len(text) = 1 THEN JsonChar(text[1])
    ELSE JsonChars(SubSeq(text, 1, Len(text) \div 2))
         \o JsonChars(SubSeq(text, (Len(text) \div 2) + 1, Len(text)))

JsonString(text) == <<"DQUOTE">> \o JsonChars(text) \o <<"DQUOTE">>

JsonBool(b) == IF b THEN <<"t", "r", "u", "e">> ELSE <<"f", "a", "l", "s", "e">>

\* the characters of the keys and of the values the renderer writes
Spelled(s) ==
    CASE s = "success" -> <<"s", "u", "c", "c", "e", "s", "s">>
      [] s = "render_mode" -> <<"r", "e", "n", "d", "e", "r", "_", "m", "o", "d", "e">>
      [] s = "engine" -> <<"e", "n", "g", "i", "n", "e">>
      [] s = "theme" -> <<"t", "h", "e", "m", "e">>
      [] s = "chart" -> <<"c", "h", "a", "r", "t">>
      [] s = "dashboard" -> <<"d", "a", "s", "h", "b", "o", "a", "r", "d">>
      [] s = "fallback_reason" -> <<"f", "a", "l", "l", "b", "a", "c", "k", "_", "r", "e", "a", "s", "o", "n">>
      [] s = "error" -> <<"e", "r", "r", "o", "r">>
      [] s = "ansi" -> <<"a", "n", "s", "i">>
      [] s = "mono" -> <<"m", "o", "n", "o">>
      [] s = "plotext" -> <<"p", "l", "o", "t", "e", "x", "t">>
      [] s = "plotext-stripped" -> <<"p", "l", "o", "t", "e", "x", "t", "-", "s", "t", "r", "i", "p", "p", "e", "d">>
      [] s = "fallback" -> <<"f", "a", "l", "l", "b", "a", "c", "k">>

\* the line of a member: key and value are texts
MemberLine(key, value, last) ==
    <<" ", " ", "DQUOTE">> \o key \o <<"DQUOTE", ":", " ">> \o value
        \o (IF last THEN <<>> ELSE <<",">>)

\* json.dumps of a non-empty object whose members are <<key, value>> pairs
json_dumps(members) ==
    JoinLines(<< <<"{">> >>
              \o [i \in 1..Len(members) |->
                    MemberLine(Spelled(members[i][1]), members[i][2], i = Len(members))]
              \o << <<"}">> >>)

\* the key of the rendered body in a renderer's result
BodyKey(res) == IF "chart" \in res.keys THEN "chart" ELSE "dashboard"

\* the rendered body of a renderer's result
Body(res) == IF "chart" \in res.keys THEN res.chart ELSE res.dashboard

\* the members of a renderer's result, in the order the renderer inserts them
ResultMembers(res) ==
    << <<"success", JsonBool(res.success)>>,
       <<"render_mode", JsonString(Spelled(res.render_mode))>>,
       <<"engine", JsonString(Spelled(res.engine))>>,
       <<"theme", JsonString(res.theme)>>,
       <<BodyKey(res), JsonString(Body(res))>> >>
    \o (IF "fallback_reason" \in res.keys
        THEN << <<"fallback_reason", JsonString(res.fallback_reason)>> >>
        ELSE <<>>)

\* arguments.get(key, default)
OrDefault(arg, default) == IF arg.set THEN arg.val ELSE default

\* a variant in which an absent raw_output asks for the envelope
RawOutput_default_false(arguments) == OrDefault(arguments.raw_output, FALSE)

\* arguments.get("raw_output", True)
RawOutput(arguments) == OrDefault(arguments.raw_output, TRUE)

\* the text returned for a renderer's result (server.py 1012-1019, 1032-1039)
Response(res, arguments) ==
    IF RawOutput(arguments) THEN Body(res) ELSE json_dumps(ResultMembers(res))

\* except Exception as e (server.py 1106-1116)
Failure(msg) ==
    json_dumps(<< <<"success", JsonBool(FALSE)>>, <<"error", JsonString(msg)>> >>)

\* the text content returned, with the outcome of the renderer's call
Responded(out, arguments) ==
    [text |-> IF out.result.status = "raised" THEN Failure(out.result.msg)
              ELSE Response(out.result, arguments),
     out |-> out]

\* the branch of create_terminal_chart (server.py 999-1019)
CreateTerminalChart(arguments, backends) ==
    Responded(render_terminal_chart(OrDefault(arguments.type, LineKind),
                                    OrDefault(arguments.data, <<>>),
                                    arguments.title, Unset, Unset,
                                    OrDefault(arguments.width, 100), 28, ThemeNone,
                                    OrDefault(arguments.use_color, FALSE),
                                    OrDefault(arguments.force_mono, FALSE),
                                    OrDefault(arguments.text_mode, "auto"),
                                    backends[1]),
              arguments)

\* the branch of create_terminal_dashboard (server.py 1021-1039)
CreateTerminalDashboard(arguments, backends) ==
    Responded(render_terminal_dashboard(OrDefault(arguments.panels, <<>>),
                                        arguments.title,
                                        OrDefault(arguments.width, 120), 32, ThemeNone,
                                        OrDefault(arguments.use_color, FALSE),
                                        OrDefault(arguments.force_mono, FALSE),
                                        OrDefault(arguments.text_mode, "auto"),
                                        backends),
              arguments)

call_tool(name, arguments, backends) ==
    IF name = "create_terminal_chart" THEN CreateTerminalChart(arguments, backends)
    ELSE CreateTerminalDashboard(arguments, backends)

(***************************************************************************)
(* The arguments the model draws from.                                     *)
(***************************************************************************)
ChartTypes == {LineKind, BarKind, ScatterKind, AreaKind, PieKind}

TextModes == {"auto", "plotext_stripped", "fallback", "ansi"}

\* x = ["A", "B"], y = [10, 20]
SeriesAB == Series(Absent, PyList(<<PyStr(<<"A">>), PyStr(<<"B">>)>>),
                   PyList(<<PyInt(10), PyInt(20)>>))

DataSets ==
    { <<>>,
      <<SeriesAB>>,
      <<NotAMapping>>,
      <<SeriesAB, NotAMapping>>,
      <<Series(Absent, Absent, None)>>,
      <<Series(PyStr(<<"s">>), None, PyList(<<PyInt(1)>>))>>,
      <<Series(Absent, Absent, PyList(<<PyStr(<<"a", "b", "c">>), PyStr(<<"3", ".", "5">>), None>>))>>,
      <<Series(Absent, Absent, Absent)>>,
      <<Series(Absent, PyList(<<PyInt(1)>>), PyInt(7))>>,
      <<Series(Absent, PyList(<<PyInt(1)>>), PyList(<<BigInt>>))>> }

\* no title, a plain one, and one that carries an ANSI sequence
Titles == {Unset, Value(<<"T">>), Value(<<"ESC", "[", "3", "1", "m", "T">>)}

XLabels == {Unset}

YLabels == {Unset}

Widths == {50}

Heights == {4}

Themes == {ThemeNone, ThemeDict(Absent, Absent, PyStr(<<"a", "b">>))}

\* what show() prints: a colored plot, a plain one, and one where a sequence
\* stands inside the opening of another
BackendOutputs == { <<"ESC", "[", "3", "4", "m", "x", "ESC", "[", "0", "m", "NL">>,
                    <<"x", " ">>,
                    <<"ESC", "[", "ESC", "[", "0", "m", "0", "m", "x">> }

Backends == {BackendOk(out) : out \in BackendOutputs}
            \cup {BackendImportError(MsgNoPlotext), BackendDrawError(MsgBoom),
                  BackendDrawError(<<>>)}

PanelSet == { Panel(Absent, TRUE, <<SeriesAB>>, Absent),
              Panel(PyStr(BarKind), TRUE, <<SeriesAB>>, PyStr(<<>>)),
              Panel(PyStr(PieKind), TRUE, <<SeriesAB>>, PyStr(<<"B">>)),
              Panel(PyStr(LineKind), FALSE, <<>>, None) }

DashboardBackends == { BackendOk(<<"ESC", "[", "3", "4", "m", "x", "ESC", "[", "0", "m", "NL">>),
                       BackendDrawError(MsgBoom), BackendDrawError(<<>>) }

DashboardTitles == {Unset, Value(<<"D">>)}

DashboardWidths == {30, 50}

DashboardHeights == {15}

\* the y values and widths of the bar charts rendered on their own: the widths
\* give the bar widths 10 and 22
BarValues == {-10, 0, 1, 2, 3, 10, 15, 20, 22}

BarChartWidths == {38, 50}

BarLabels == <<PyStr(<<"A">>), PyStr(<<"B">>), PyStr(<<"C">>), PyStr(<<"D">>)>>

\* the series with labels A, B, ... and these integers as y
BarSeries(ys) ==
    Series(Absent, PyList(SubSeq(BarLabels, 1, Len(ys))),
           PyList([i \in 1..Len(ys) |-> PyInt(ys[i])]))

\* the floats (in tenths) of the sparklines drawn on their own: small values,
\* and values near 2e8, where 0.1 is within the tolerance of math.isclose and
\* 0.3 and 0.4 are not
SmallFloats == {-10, 0, 5, 35, 50, 100}

LargeFloats == {2000000000, 2000000001, 2000000004}

\* the values coerced on their own: numbers, numeric and other strings, None,
\* a list, and an integer beyond the range of a float (10 ** 400)
CoercedValues == { PyInt(2), PyFloat(15), PyStr(<<"3", ".", "5">>), PyStr(<<"-", "4">>),
                   PyStr(<<"a", "b", "c">>), PyStr(<<"a">>), PyStr(<<"b">>), None,
                   PyList(<<>>), BigInt }

\* the arguments of the terminal tools: the keys of both tools, a key of the
\* other tool being ignored
ToolNames == {"create_terminal_chart", "create_terminal_dashboard"}

ToolTypes == {Unset, Value(BarKind), Value(PieKind)}

ToolData == {Unset, Value(<<>>), Value(<<SeriesAB>>)}

ToolPanels == { Unset,
                Value(<<>>),
                Value(<<Panel(PyStr(LineKind), FALSE, <<>>, None)>>),
                Value(<<Panel(PyStr(BarKind), TRUE, <<SeriesAB>>, Absent),
                        Panel(PyStr(PieKind), TRUE, <<SeriesAB>>, Absent)>>),
                Value(<<Panel(Absent, TRUE, <<SeriesAB>>, Absent)>>),
                Value(<<Panel(PyStr(BarKind), TRUE, <<SeriesAB>>, PyStr(<<"B">>)),
                        Panel(Absent, TRUE, <<SeriesAB>>, PyStr(<<"DQUOTE">>))>>) }

ToolWidths == {Unset, Value(50)}

ToolFlags == {Unset, Value(TRUE), Value(FALSE)}

ToolTextModes == {Unset, Value("fallback"), Value("ansi")}

ToolBackends == { <<BackendOk(<<"ESC", "[", "3", "4", "m", "x", "ESC", "[", "0", "m", "NL">>),
                    BackendDrawError(MsgBoom)>>,
                  <<BackendDrawError(MsgBoom), BackendDrawError(<<>>)>>,
                  <<BackendDrawError(<<>>),
                    BackendOk(<<"ESC", "[", "3", "4", "m", "x", "ESC", "[", "0", "m", "NL">>)>> }

ToolArguments ==
    [type : ToolTypes, data : ToolData, panels : ToolPanels, title : Titles,
     width : ToolWidths, use_color : {Unset, Value(TRUE)}, force_mono : {Unset},
     text_mode : ToolTextModes, raw_output : ToolFlags]

\* the data of the calls made in one process: one series, another series,
\* and two series of which the second raises after the first has been drawn
ProcessData == { <<SeriesAB>>,
                 <<Series(PyStr(<<"s">>), Absent, PyList(<<PyInt(1), PyInt(2)>>))>>,
                 <<SeriesAB, NotAMapping>>,
                 <<SeriesAB, Series(Absent, PyList(<<BigInt>>), PyList(<<PyInt(1)>>))>> }

ProcessTextModes == {"auto", "fallback"}

\* theme arguments: None, names known and unknown, and mappings
ThemeNames == {DarkCorporateCli, PastelStartupCli, <<"n", "o", "p", "e">>, <<>>}

NameValues == {Absent, PyStr(<<"m", "i", "n", "e">>), None, PyInt(5)}

ColorsValues == {Absent, None, PyList(<<>>), PyList(<<PyStr(<<"r", "e", "d">>)>>),
                 PyList(<<PyStr(<<"r", "e", "d">>), PyInt(3)>>), PyStr(<<"r", "e", "d">>)}

GlyphValues == {Absent, None, PyStr(<<>>), PyStr(<<"*">>), PyStr(<<"a", "b">>), PyInt(7)}

ThemeArgs ==
    {ThemeNone} \cup {ThemeName(n) : n \in ThemeNames}
    \cup {ThemeDict(n, c, g) : n \in NameValues, c \in ColorsValues, g \in GlyphValues}

\* the sequences over S of length n
SeqsOfLen(S, n) == [1..n -> S]

(***************************************************************************)
(* The state: the environment, and the call in progress with its outcome.  *)
(* The renderer is synchronous and keeps nothing between calls: a call is  *)
(* made when no call is in progress, and Return hands its outcome to the   *)
(* caller.                                                                 *)
(***************************************************************************)
Idle == [op |-> "none"]

(***************************************************************************)
(* The server's event loop.  main() runs run_server() under asyncio.run    *)
(* (server.py 1121-1123): one thread, one loop.  A tool call is the        *)
(* coroutine call_tool; the loop runs one coroutine at a time and takes    *)
(* another only where the running one awaits.  loop holds the calls that   *)
(* have arrived (tasks), the one that is running (0 when the loop is       *)
(* free) and the target of sys.stdout (0 the real one, i the buffer of     *)
(* task i).  A task goes through the steps of _render_plotext_chart:       *)
(* pending, cleared (clf done, series being plotted), redirected, shown,   *)
(* done.                                                                   *)
(***************************************************************************)
MaxTasks == 2

NoLoop == [tasks |-> <<>>, running |-> 0, stdout |-> 0]

LoopData == { <<SeriesAB>>,
              <<Series(PyStr(<<"s">>), Absent, PyList(<<PyInt(1), PyInt(2)>>)), SeriesAB>> }

Task(data, arrived) ==
    [pc |-> "pending", data |-> data, drawn |-> 0, old |-> 0, out |-> <<>>, text |-> <<>>,
     arrived |-> arrived]

AwaitsAt_after_clear(pc) == pc = "cleared"

\* the positions of call_tool at which it awaits: there is none between its
\* entry and its return (server.py 810-1116, renderer.py 120-255)
AwaitsAt(pc) == FALSE

\* the running task after a step of task i that leaves it at pc
Running(i, pc) == IF AwaitsAt(pc) THEN 0 ELSE i

Elsewhere == <<env, call, result, plotextLog, monoLog, panelLog, panelCalls, rendered, session>>

\* a task the loop can take: one that has not begun, or one that awaited
Ready(pc) == IF pc = "pending" THEN TRUE ELSE pc # "done" /\ AwaitsAt(pc)

\* a tools/call request arrives and becomes a task of the loop
Receive ==
    /\ Len(loop.tasks) < MaxTasks
    /\ \E data \in LoopData :
          loop' = [loop EXCEPT !.tasks = Append(@, Task(data, loop.running))]
    /\ UNCHANGED canvas
    /\ UNCHANGED Elsewhere

\* the free loop takes a task that is ready: a new one, or one that awaited
Start ==
    /\ loop.running = 0
    /\ \E i \in DOMAIN loop.tasks :
          /\ Ready(loop.tasks[i].pc)
          /\ loop' = [loop EXCEPT !.running = i]
    /\ UNCHANGED canvas
    /\ UNCHANGED Elsewhere

\* plt.clf() (renderer.py 132)
Clf ==
    /\ loop.running # 0
    /\ loop.tasks[loop.running].pc = "pending"
    /\ canvas' = clf(canvas)
    /\ loop' = [loop EXCEPT !.tasks[loop.running].pc = "cleared",
                            !.running = Running(loop.running, "cleared")]
    /\ UNCHANGED Elsewhere

\* one turn of the loop over the series: plt.plot (renderer.py 135-150)
Plot ==
    /\ loop.running # 0
    /\ loop.tasks[loop.running].pc = "cleared"
    /\ loop.tasks[loop.running].drawn < Len(loop.tasks[loop.running].data)
    /\ canvas' = Append(canvas, PlotLabel(loop.tasks[loop.running].data[loop.tasks[loop.running].drawn + 1],
                                          loop.tasks[loop.running].drawn + 1))
    /\ loop' = [loop EXCEPT !.tasks[loop.running].drawn = @ + 1,
                            !.running = Running(loop.running, "cleared")]
    /\ UNCHANGED Elsewhere

\* with redirect_stdout(out): sys.stdout is saved and replaced (renderer.py 163-164)
Redirect ==
    /\ loop.running # 0
    /\ loop.tasks[loop.running].pc = "cleared"
    /\ loop.tasks[loop.running].drawn = Len(loop.tasks[loop.running].data)
    /\ loop' = [loop EXCEPT !.tasks[loop.running].pc = "redirected",
                            !.tasks[loop.running].old = loop.stdout,
                            !.stdout = loop.running,
                            !.running = Running(loop.running, "redirected")]
    /\ UNCHANGED canvas
    /\ UNCHANGED Elsewhere

\* the text that reaches task i when show() prints text to sys.stdout
Printed(i, text) == IF loop.stdout = i THEN loop.tasks[i].out \o text ELSE loop.tasks[i].out

\* plt.show() prints the canvas to sys.stdout (renderer.py 165)
Show ==
    /\ loop.running # 0
    /\ loop.tasks[loop.running].pc = "redirected"
    /\ loop' = [loop EXCEPT !.tasks = [i \in DOMAIN loop.tasks |->
                                          [loop.tasks[i] EXCEPT
                                             !.out = Printed(i, show(canvas)),
                                             !.pc = IF i = loop.running THEN "shown" ELSE @]],
                            !.running = Running(loop.running, "shown")]
    /\ UNCHANGED canvas
    /\ UNCHANGED Elsewhere

\* the with block ends, sys.stdout is restored, the text is returned
\* (renderer.py 165-166) and call_tool returns
Finish ==
    /\ loop.running # 0
    /\ loop.tasks[loop.running].pc = "shown"
    /\ loop' = [loop EXCEPT !.tasks[loop.running].pc = "done",
                            !.tasks[loop.running].text = RStrip(loop.tasks[loop.running].out),
                            !.stdout = loop.tasks[loop.running].old,
                            !.running = 0]
    /\ UNCHANGED canvas
    /\ UNCHANGED Elsewhere

Init ==
    /\ env \in [NO_COLOR : NoColorValues, TERM : TermValues]
    /\ call = Idle
    /\ result = NoCall
    /\ plotextLog = <<>>
    /\ monoLog = <<>>
    /\ panelLog = <<>>
    /\ panelCalls = <<>>
    /\ rendered = <<>>
    /\ session = <<>>
    /\ canvas = <<>>
    /\ loop = NoLoop

\* the outcome of the call in progress
Deliver(out) ==
    /\ result' = out.result
    /\ plotextLog' = out.plotext
    /\ monoLog' = out.mono
    /\ panelLog' = out.panels
    /\ panelCalls' = out.calls
    /\ rendered' = <<>>

\* os.environ[name] = value, or del os.environ[name], between two calls
SetEnv ==
    /\ call = Idle
    /\ \E name \in {"NO_COLOR", "TERM"} :
         \E value \in (IF name = "NO_COLOR" THEN NoColorValues ELSE TermValues) :
            /\ env[name] # value
            /\ env' = [env EXCEPT ![name] = value]
    /\ UNCHANGED <<call, result, plotextLog, monoLog, panelLog, panelCalls, rendered, session, canvas, loop>>

ShouldUseColor ==
    /\ call = Idle
    /\ \E use_color \in BOOLEAN, force_mono \in BOOLEAN :
        /\ call' = [op |-> "should_use_color", use_color |-> use_color,
                    force_mono |-> force_mono]
        /\ result' = [status |-> "returned", value |-> should_use_color(use_color, force_mono)]
    /\ plotextLog' = <<>>
    /\ monoLog' = <<>>
    /\ panelLog' = <<>>
    /\ panelCalls' = <<>>
    /\ rendered' = <<>>
    /\ UNCHANGED <<env, session, canvas, loop>>

RenderTerminalChart ==
    /\ call = Idle
    /\ \E chart_type \in ChartTypes, data \in DataSets, title \in Titles,
          x_label \in XLabels, y_label \in YLabels, width \in Widths, height \in Heights,
          theme \in Themes, use_color \in BOOLEAN, force_mono \in BOOLEAN,
          text_mode \in TextModes, backend \in Backends :
        /\ call' = [op |-> "render_terminal_chart", chart_type |-> chart_type,
                    data |-> data, title |-> title, x_label |-> x_label,
                    y_label |-> y_label, width |-> width, height |-> height,
                    theme |-> theme, use_color |-> use_color,
                    force_mono |-> force_mono, text_mode |-> text_mode]
        /\ Deliver(render_terminal_chart(chart_type, data, title, x_label, y_label,
                                         width, height, theme, use_color, force_mono,
                                         text_mode, backend))
    /\ UNCHANGED <<env, session, canvas, loop>>

RenderTerminalDashboard ==
    /\ call = Idle
    /\ \E n \in 0..MaxPanels :
         \E panels \in SeqsOfLen(PanelSet, n), backends \in SeqsOfLen(DashboardBackends, n),
            title \in DashboardTitles, width \in DashboardWidths,
            height \in DashboardHeights, use_color \in BOOLEAN, force_mono \in BOOLEAN,
            text_mode \in TextModes :
        /\ call' = [op |-> "render_terminal_dashboard", panels |-> panels,
                    title |-> title, width |-> width, height |-> height,
                    theme |-> ThemeNone, use_color |-> use_color,
                    force_mono |-> force_mono, text_mode |-> text_mode]
        /\ Deliver(render_terminal_dashboard(panels, title, width, height, ThemeNone,
                                             use_color, force_mono, text_mode, backends))
    /\ UNCHANGED <<env, session, canvas, loop>>

\* the call in progress is a render in the process whose canvas is modelled
InProcess == call # Idle /\ "found" \in DOMAIN call

\* what is remembered of a call in the process once it has returned: the
\* environment it ran under, the call, its result and the canvas it left
Summary == [env |-> env, call |-> call, result |-> result, left |-> canvas]

\* the call returns (or raises) to its caller; of a call in the process the
\* summary is remembered until the next one returns, and the canvas stays
Return ==
    /\ call # Idle
    /\ call' = Idle
    /\ result' = NoCall
    /\ plotextLog' = <<>>
    /\ monoLog' = <<>>
    /\ panelLog' = <<>>
    /\ panelCalls' = <<>>
    /\ rendered' = <<>>
    /\ session' = IF InProcess THEN <<Summary>> ELSE session
    /\ UNCHANGED <<env, canvas, loop>>

Next == SetEnv \/ ShouldUseColor \/ RenderTerminalChart \/ Return

Spec == Init /\ [][Next]_vars

\* the dashboard, under the environments that decide the color policy either way
InitDashboard ==
    /\ env \in [NO_COLOR : {Unset, Value(<<"1">>)}, TERM : {Unset}]
    /\ call = Idle
    /\ result = NoCall
    /\ plotextLog = <<>>
    /\ monoLog = <<>>
    /\ panelLog = <<>>
    /\ panelCalls = <<>>
    /\ rendered = <<>>
    /\ session = <<>>
    /\ canvas = <<>>
    /\ loop = NoLoop

NextDashboard == RenderTerminalDashboard \/ Return

SpecDashboard == InitDashboard /\ [][NextDashboard]_vars

\* resolve_cli_theme called on its own
ResolveCliTheme ==
    /\ call = Idle
    /\ \E theme \in ThemeArgs :
        /\ call' = [op |-> "resolve_cli_theme", theme |-> theme]
        /\ result' = [status |-> "returned", value |-> resolve_cli_theme(theme)]
    /\ plotextLog' = <<>>
    /\ monoLog' = <<>>
    /\ panelLog' = <<>>
    /\ panelCalls' = <<>>
    /\ rendered' = <<>>
    /\ UNCHANGED <<env, session, canvas, loop>>

\* what a renderer called on its own hands back
Handed(r) == [status |-> IF r.ok THEN "returned" ELSE "raised", value |-> r.val]

\* _render_mono_chart called on its own for a bar chart of one series
RenderMonoChart ==
    /\ call = Idle
    /\ \E n \in 1..MaxRows :
         \E ys \in SeqsOfLen(BarValues, n), width \in BarChartWidths :
            /\ call' = [op |-> "_render_mono_chart", chart_type |-> BarKind, ys |-> ys,
                        width |-> width, height |-> 4, mono_symbol |-> <<"#">>]
            /\ result' = Handed(_render_mono_chart(BarKind, <<BarSeries(ys)>>, Unset, Unset,
                                                   Unset, width, 4, <<"#">>))
    /\ plotextLog' = <<>>
    /\ monoLog' = <<>>
    /\ panelLog' = <<>>
    /\ panelCalls' = <<>>
    /\ rendered' = <<>>
    /\ UNCHANGED <<env, session, canvas, loop>>

\* _sparkline called on its own
Sparkline ==
    /\ call = Idle
    /\ \E n \in 0..MaxValues :
         \E values \in SeqsOfLen(SmallFloats, n) \cup SeqsOfLen(LargeFloats, n) :
            /\ call' = [op |-> "_sparkline", values |-> values]
            /\ result' = [status |-> "returned", value |-> _sparkline(values)]
    /\ plotextLog' = <<>>
    /\ monoLog' = <<>>
    /\ panelLog' = <<>>
    /\ panelCalls' = <<>>
    /\ rendered' = <<>>
    /\ UNCHANGED <<env, session, canvas, loop>>

\* the outcome of a call, with the exception it raised
HandedExc(r) ==
    [status |-> IF r.ok THEN "returned" ELSE "raised", value |-> r.val, exc |-> r.exc]

\* _safe_float called on its own
SafeFloat ==
    /\ call = Idle
    /\ \E value \in CoercedValues :
            /\ call' = [op |-> "_safe_float", value |-> value]
            /\ result' = HandedExc(_safe_float(value))
    /\ plotextLog' = <<>>
    /\ monoLog' = <<>>
    /\ panelLog' = <<>>
    /\ panelCalls' = <<>>
    /\ rendered' = <<>>
    /\ UNCHANGED <<env, session, canvas, loop>>

\* _x_for_plotext called on its own, with the length of the values or another
XForPlotext ==
    /\ call = Idle
    /\ \E n \in 0..MaxValues :
         \E values \in SeqsOfLen(CoercedValues, n) :
          \E length \in {n, MaxValues} :
            /\ call' = [op |-> "_x_for_plotext", values |-> values, length |-> length]
            /\ result' = HandedExc(_x_for_plotext(PyList(values), length))
    /\ plotextLog' = <<>>
    /\ monoLog' = <<>>
    /\ panelLog' = <<>>
    /\ panelCalls' = <<>>
    /\ rendered' = <<>>
    /\ UNCHANGED <<env, session, canvas, loop>>

\* a tool call served by the dispatch
CallTool ==
    /\ call = Idle
    /\ \E name \in ToolNames, arguments \in ToolArguments, backends \in ToolBackends :
        /\ arguments.panels.set => name = "create_terminal_dashboard"
        /\ arguments.type.set => name = "create_terminal_chart"
        /\ arguments.data.set => name = "create_terminal_chart"
        /\ call' = [op |-> "call_tool", name |-> name, arguments |-> arguments]
        /\ result' = [status |-> "returned",
                      value |-> call_tool(name, arguments, backends).text]
        /\ plotextLog' = call_tool(name, arguments, backends).out.plotext
        /\ monoLog' = call_tool(name, arguments, backends).out.mono
        /\ panelLog' = call_tool(name, arguments, backends).out.panels
        /\ panelCalls' = call_tool(name, arguments, backends).out.calls
        /\ rendered' = <<call_tool(name, arguments, backends).out.result>>
    /\ UNCHANGED <<env, session, canvas, loop>>

\* the step of a call in the process, drawn being the canvas its adapter leaves
RenderOnCanvas(data, use_color, text_mode, drawn) ==
    /\ call' = [op |-> "render_terminal_chart", chart_type |-> LineKind, data |-> data,
                title |-> Unset, x_label |-> Unset, y_label |-> Unset, width |-> 50,
                height |-> 4, theme |-> ThemeNone, use_color |-> use_color,
                force_mono |-> FALSE, text_mode |-> text_mode, found |-> canvas]
    /\ Deliver(render_terminal_chart(LineKind, data, Unset, Unset, Unset, 50, 4, ThemeNone,
                                     use_color, FALSE, text_mode, BackendOk(show(drawn))))
    /\ canvas' = CanvasAfter(canvas, text_mode, drawn)

\* render_terminal_chart called in a process whose backend keeps its canvas
RenderInProcess ==
    /\ call = Idle
    /\ \E data \in ProcessData, use_color \in BOOLEAN, text_mode \in ProcessTextModes :
            RenderOnCanvas(data, use_color, text_mode, Drawn(canvas, LineKind, data))
    /\ UNCHANGED <<env, session, loop>>

InitPure ==
    /\ env = [NO_COLOR |-> Unset, TERM |-> Unset]
    /\ call = Idle
    /\ result = NoCall
    /\ plotextLog = <<>>
    /\ monoLog = <<>>
    /\ panelLog = <<>>
    /\ panelCalls = <<>>
    /\ rendered = <<>>
    /\ session = <<>>
    /\ canvas = <<>>
    /\ loop = NoLoop

\* the series a caller hands to the monochrome renderer: with and without a
\* name, with x missing or shorter than y, with no y values
MaxSeries == 2

LongName == <<"a", "b", "c", "d", "e", "f", "g", "h", "i", "j", "k", "l", "m", "n", "o", "p", "q", "r", "s", "t">>

MonoSeries ==
    { Series(Absent, PyList(<<PyStr(<<"A">>), PyStr(<<"B">>), PyStr(<<"C">>)>>),
             PyList(<<PyInt(1), PyInt(2), PyInt(3)>>)),
      Series(PyStr(<<"s">>), Absent, PyList(<<PyInt(1), PyInt(2)>>)),
      Series(PyStr(LongName), PyList(<<PyStr(<<"A">>)>>),
             PyList(<<PyInt(10), PyInt(20), PyInt(30)>>)),
      Series(Absent, Absent, PyList(<<>>)) }

MonoKinds == {LineKind, ScatterKind, AreaKind, BarKind}

MonoHeights == {1, 4}

RenderMonoSeries ==
    /\ call = Idle
    /\ \E n \in 1..MaxSeries :
         \E data \in SeqsOfLen(MonoSeries, n), chart_type \in MonoKinds, height \in MonoHeights :
            /\ call' = [op |-> "_render_mono_chart", chart_type |-> chart_type, data |-> data,
                        width |-> 50, height |-> height, mono_symbol |-> <<"#">>]
            /\ result' = Handed(_render_mono_chart(chart_type, data, Unset, Unset, Unset,
                                                   50, height, <<"#">>))
    /\ plotextLog' = <<>>
    /\ monoLog' = <<>>
    /\ panelLog' = <<>>
    /\ panelCalls' = <<>>
    /\ rendered' = <<>>
    /\ UNCHANGED <<env, session, canvas, loop>>

NextMono == RenderMonoSeries \/ Return

SpecMono == InitPure /\ [][NextMono]_vars

NextBars == RenderMonoChart \/ Return

SpecBars == InitPure /\ [][NextBars]_vars

NextSpark == Sparkline \/ Return

SpecSpark == InitPure /\ [][NextSpark]_vars

NextCoerce == SafeFloat \/ XForPlotext \/ Return

SpecCoerce == InitPure /\ [][NextCoerce]_vars

NextTool == CallTool \/ Return

SpecTool == InitDashboard /\ [][NextTool]_vars

NextProcess == SetEnv \/ RenderInProcess \/ Return

(***************************************************************************)
(* The file name of a saved image.  Paths are texts; "/" separates the     *)
(* components.  "U+00E9" stands for a character outside ASCII.             *)
(***************************************************************************)
MaxNameLen == 3

Digits == {"0", "1", "2", "3", "4", "5", "6", "7", "8", "9"}

\* the characters FILENAME_SAFE_RE leaves alone (server.py 43)
SafeChars == {Uppers[i] : i \in 1..Len(Uppers)} \cup {Lowers[i] : i \in 1..Len(Lowers)}
             \cup Digits \cup {".", "_", "-"}

\* str.strip(chars): the text between its first and last character outside chars
StripSet(text, chars) ==
    IF \A k \in DOMAIN text : text[k] \in chars THEN <<>>
    ELSE SubSeq(text,
                CHOOSE a \in DOMAIN text : text[a] \notin chars /\ \A k \in 1..(a - 1) : text[k] \in chars,
                CHOOSE b \in DOMAIN text : text[b] \notin chars /\ \A k \in (b + 1)..Len(text) : text[k] \in chars)

\* str.strip()
strip(text) == StripSet(text, Whitespace)

OrElse(text, fallback) == IF text # <<>> THEN text ELSE fallback

\* the positions at which a component of a path starts
Starts(path) == {s \in DOMAIN path : path[s] # "/" /\ (s = 1 \/ path[s - 1] = "/")}

\* the component that starts at s
Component(path, s) ==
    SubSeq(path, s, CHOOSE e \in s..Len(path) :
                        /\ \A k \in s..e : path[k] # "/"
                        /\ e = Len(path) \/ path[e + 1] = "/")

\* the components of a path as pathlib keeps them: empty ones and "." dropped
Kept(path) == {s \in Starts(path) : Component(path, s) # <<".">>}

Components(path) ==
    [i \in 1..Cardinality(Kept(path)) |->
        Component(path, CHOOSE s \in Kept(path) : Cardinality({t \in Kept(path) : t < s}) = i - 1)]

\* Path(text).name: the last component, empty when there is none
PathName(text) ==
    IF Components(text) = <<>> THEN <<>> ELSE Components(text)[Len(Components(text))]

\* the position of the last "." of a name, 0 without one
LastDot(name) ==
    IF \A k \in DOMAIN name : name[k] # "." THEN 0
    ELSE CHOOSE i \in DOMAIN name : name[i] = "." /\ \A k \in (i + 1)..Len(name) : name[k] # "."

\* Path(name).stem: the name without its suffix; a "." at either end starts no suffix
PathStem(name) ==
    IF LastDot(name) > 1 /\ LastDot(name) < Len(name) THEN SubSeq(name, 1, LastDot(name) - 1)
    ELSE name

Replaced(text) ==
    [k \in DOMAIN text |-> IF text[k] \in SafeChars THEN text[k]
                           ELSE IF k = 1 \/ text[k - 1] \in SafeChars THEN "_"
                           ELSE "DROP"]

FilenameSafeSub_keeping(text) == text

\* FILENAME_SAFE_RE.sub("_", text): every run of other characters becomes one "_"
FilenameSafeSub(text) == SelectSeq(Replaced(text), LAMBDA c : c # "DROP")

\* _sanitize_filename (server.py 70-74)
_sanitize_filename(name, fallback) ==
    OrElse(StripSet(FilenameSafeSub(OrElse(PathStem(PathName(OrElse(strip(IF Truthy(name) THEN name.val ELSE fallback),
                                                                    fallback))),
                                           fallback)),
                    {".", "_"}),
           fallback)

CreateLineChart == <<"c", "r", "e", "a", "t", "e", "_", "l", "i", "n", "e", "_", "c", "h", "a", "r", "t">>

CreatePieChart == <<"c", "r", "e", "a", "t", "e", "_", "p", "i", "e", "_", "c", "h", "a", "r", "t">>

ImageTools == {CreateLineChart, CreatePieChart}

\* name.replace('create_', '') for the names of the image tools (server.py 822)
WithoutCreate(name) == SubSeq(name, 8, Len(name))

\* output_dir / f"{filename}.{fmt}" (utils/export.py 164-173): a right side that
\* starts with "/" replaces the directory
Joined(output_dir, file) ==
    IF file # <<>> /\ file[1] = "/" THEN file ELSE output_dir \o <<"/">> \o file

Extension(fmt) == IF fmt = "svg" THEN <<".", "s", "v", "g">> ELSE <<".", "p", "n", "g">>

\* the files export_chart writes for an image tool call (server.py 1045-1062)
Saved(save_to_disk, output_dir, filename, fmt) ==
    IF save_to_disk /\ Truthy(output_dir)
    THEN <<Joined(output_dir.val, filename \o Extension(fmt))>>
    ELSE <<>>

NameChars == {"a", ".", "/", "_", "-", " ", "U+00E9"}

FileNames == {Unset} \cup {Value(s) : s \in UNION {[1..n -> NameChars] : n \in 0..MaxNameLen}}

OutputDirs == {Unset, Value(<<"/", "o", "u", "t">>)}

ImageFormats == {"svg", "base64"}

\* call_tool for an image tool, as far as the saved file goes
SaveImage ==
    /\ call = Idle
    /\ \E name \in ImageTools, filename \in FileNames, fmt \in ImageFormats,
          save_to_disk \in BOOLEAN, output_dir \in OutputDirs :
        /\ call' = [op |-> "call_tool", name |-> name, filename |-> filename, format |-> fmt,
                    save_to_disk |-> save_to_disk, output_dir |-> output_dir]
        /\ result' = [status |-> "returned",
                      filename |-> _sanitize_filename(filename, WithoutCreate(name)),
                      saved_files |-> Saved(save_to_disk, output_dir,
                                            _sanitize_filename(filename, WithoutCreate(name)), fmt)]
    /\ plotextLog' = <<>>
    /\ monoLog' = <<>>
    /\ panelLog' = <<>>
    /\ panelCalls' = <<>>
    /\ rendered' = <<>>
    /\ UNCHANGED <<env, session, canvas, loop>>

NextFile == SaveImage \/ Return

SpecFile == InitPure /\ [][NextFile]_vars

NextLoop == Receive \/ Start \/ Clf \/ Plot \/ Redirect \/ Show \/ Finish

SpecLoop == InitPure /\ [][NextLoop]_vars

SpecProcess == Init /\ [][NextProcess]_vars

NextTheme == ResolveCliTheme \/ Return

SpecTheme == InitPure /\ [][NextTheme]_vars

(***************************************************************************)
(* What the properties below say about the call in progress.               *)
(***************************************************************************)
\* a call of render_terminal_chart is in progress
ChartCall == call.op = "render_terminal_chart"

\* ... and its arguments pass the three validation preconditions
PassedValidation ==
    ChartCall /\ Validate(call.chart_type, call.data, call.text_mode).ok

\* the call invoked the adapter, and the adapter raised / returned its text
AdapterRaised == plotextLog # <<>> /\ ~plotextLog[1].ok

AdapterSucceeded == plotextLog # <<>> /\ plotextLog[1].ok

\* the call raised one of the three validation errors of render_terminal_chart
ValidationError ==
    /\ result.status = "raised"
    /\ result.exc = "ValueError"
    /\ result.msg \in {MsgChartType, MsgData, MsgTextMode}

\* a call of render_terminal_dashboard is in progress
DashboardCall == call.op = "render_terminal_dashboard"

C2_AdapterFailureRecorded ==
    (PassedValidation /\ call.text_mode \in {"auto", "plotext_stripped"}
       /\ AdapterRaised /\ result.status = "returned")
        => /\ result.render_mode = "mono"
           /\ result.engine = "fallback"
           /\ "fallback_reason" \in result.keys
           /\ result.fallback_reason = plotextLog[1].msg

(***************************************************************************)
(* C3.  text_mode "fallback".                                              *)
(***************************************************************************)
\* C3: a request with text_mode "fallback" never invokes the adapter, and the
\* result it returns has render_mode "mono", engine "fallback" and no
\* fallback_reason field.
C3_FallbackSkipsAdapter ==
    (ChartCall /\ call.text_mode = "fallback")
        => /\ plotextLog = <<>>
           /\ result.status = "returned"
                => /\ result.render_mode = "mono"
                   /\ result.engine = "fallback"
                   /\ "fallback_reason" \notin result.keys

\* a request in fallback mode that the Monochrome Renderer has rendered
C3_Witness ==
    /\ ChartCall
    /\ call.text_mode = "fallback"
    /\ result.status = "returned"
    /\ monoLog # <<>>
    /\ result.chart # <<>>

(***************************************************************************)
(* C4.  text_mode "auto", adapter succeeded.                               *)
(***************************************************************************)
\* C4: with text_mode "auto" and a successful adapter call the Monochrome
\* Renderer is not invoked; when the color policy enables color the result is
\* render_mode "ansi", engine "plotext" and chart is the adapter's text; when
\* it disables color the result is render_mode "mono", engine
\* "plotext-stripped" and chart is the adapter's text with the ANSI sequences
\* stripped.
C4_AutoFollowsColorPolicy ==
    (ChartCall /\ call.text_mode = "auto" /\ AdapterSucceeded)
        => /\ result.status = "returned"
           /\ monoLog = <<>>
           /\ IF should_use_color(call.use_color, call.force_mono)
              THEN /\ result.render_mode = "ansi"
                   /\ result.engine = "plotext"
                   /\ result.chart = plotextLog[1].val
              ELSE /\ result.render_mode = "mono"
                   /\ result.engine = "plotext-stripped"
                   /\ result.chart = strip_ansi(plotextLog[1].val)

\* an auto request whose adapter text holds ANSI sequences, with color disabled
\* by NO_COLOR: the sequences are gone from chart
C4_Witness ==
    /\ ChartCall
    /\ call.text_mode = "auto" /\ call.use_color /\ ~call.force_mono
    /\ Truthy(env.NO_COLOR)
    /\ AdapterSucceeded
    /\ \E i \in DOMAIN plotextLog[1].val : plotextLog[1].val[i] = "ESC"
    /\ result.engine = "plotext-stripped"
    /\ result.chart = <<"x">>

(***************************************************************************)
(* C5.  text_mode "plotext_stripped", adapter succeeded.                   *)
(***************************************************************************)
\* C5: with text_mode "plotext_stripped" and a successful adapter call the
\* result is render_mode "mono" with engine "plotext-stripped", whatever
\* use_color, force_mono, NO_COLOR and TERM.
C5_StrippedIsMono ==
    (ChartCall /\ call.text_mode = "plotext_stripped" /\ AdapterSucceeded)
        => /\ result.status = "returned"
           /\ result.render_mode = "mono"
           /\ result.engine = "plotext-stripped"

\* a plotext_stripped request for which the color policy enables color
C5_Witness ==
    /\ ChartCall
    /\ call.text_mode = "plotext_stripped"
    /\ call.use_color /\ ~call.force_mono /\ ~env.NO_COLOR.set /\ ~env.TERM.set
    /\ AdapterSucceeded
    /\ result.status = "returned"
    /\ result.engine = "plotext-stripped"

(***************************************************************************)
(* C6.  The color policy.                                                  *)
(***************************************************************************)
\* C6 as stated: should_use_color returns false when force_mono is set, or
\* use_color is false, or NO_COLOR is present with any value, the empty string
\* included, or TERM is "dumb" in any letter case; and true in every other case.
C6_ColorPolicyNoColorPresent ==
    call.op = "should_use_color"
        => result.value = ~(\/ call.force_mono
                            \/ ~call.use_color
                            \/ env.NO_COLOR.set
                            \/ (env.TERM.set /\ Lower(env.TERM.val) = <<"d", "u", "m", "b">>))

\* C6, amended: should_use_color returns false when force_mono is set, or
\* use_color is false, or NO_COLOR is set to a non-empty value, or TERM is
\* "dumb" in any letter case; and true in every other case, NO_COLOR set to
\* the empty string included.
C6_ColorPolicyNoColorNonEmpty ==
    call.op = "should_use_color"
        => result.value = ~(\/ call.force_mono
                            \/ ~call.use_color
                            \/ (env.NO_COLOR.set /\ env.NO_COLOR.val # <<>>)
                            \/ (env.TERM.set /\ Lower(env.TERM.val) = <<"d", "u", "m", "b">>))

\* the policy asked for color with NO_COLOR set to the empty string
C6_Witness ==
    /\ call.op = "should_use_color"
    /\ call.use_color /\ ~call.force_mono
    /\ env.NO_COLOR = Value(<<>>)
    /\ ~env.TERM.set
    /\ result.value

(***************************************************************************)
(* C7.  Validation.                                                        *)
(***************************************************************************)
\* C7: render_terminal_chart raises a validation error, and invokes neither the
\* adapter nor the Monochrome Renderer, when the chart kind is not line, bar,
\* scatter or area, or data is empty, or text_mode is not auto,
\* plotext_stripped or fallback; otherwise it raises no validation error.
C7_Validation ==
    ChartCall
        => IF \/ call.chart_type \notin {LineKind, BarKind, ScatterKind, AreaKind}
              \/ call.data = <<>>
              \/ call.text_mode \notin {"auto", "plotext_stripped", "fallback"}
           THEN ValidationError /\ plotextLog = <<>> /\ monoLog = <<>>
           ELSE ~ValidationError

\* a pie request with data and a recognized text_mode
C7_Witness ==
    /\ ChartCall
    /\ call.chart_type = PieKind
    /\ call.data # <<>>
    /\ call.text_mode = "auto"
    /\ result.status = "raised"
    /\ result.msg = MsgChartType

(***************************************************************************)
(* C8.  Only validation errors cross the boundary.                         *)
(***************************************************************************)
\* C8: every request that passes the three validation preconditions returns a
\* result with success true and never raises, whatever the series hold and
\* whatever the adapter does.
C8_AlwaysSucceeds ==
    PassedValidation => (result.status = "returned" /\ result.success)

(***************************************************************************)
(* C9.  The dashboard's engine and render_mode.                            *)
(***************************************************************************)
\* C9: the dashboard reports as engine the weakest engine any of its panels
\* returned, ranked plotext < plotext-stripped < fallback, whatever the order
\* of the panels; it reports render_mode "mono" when some panel returned mono
\* and "ansi" only when every panel returned ansi.
C9_WeakestEngine ==
    (DashboardCall /\ result.status = "returned")
        => /\ Len(panelLog) = Len(call.panels)
           /\ result.engine =
                (IF \E i \in DOMAIN panelLog : panelLog[i].engine = "fallback"
                 THEN "fallback"
                 ELSE IF \E i \in DOMAIN panelLog : panelLog[i].engine = "plotext-stripped"
                 THEN "plotext-stripped"
                 ELSE "plotext")
           /\ result.render_mode =
                (IF \E i \in DOMAIN panelLog : panelLog[i].render_mode = "mono"
                 THEN "mono" ELSE "ansi")

\* a dashboard whose first panel fell back and whose second panel was rendered
\* in color by the adapter
C9_Witness ==
    /\ DashboardCall
    /\ result.status = "returned"
    /\ Len(panelLog) = 2
    /\ panelLog[1].engine = "fallback" /\ panelLog[1].render_mode = "mono"
    /\ panelLog[2].engine = "plotext" /\ panelLog[2].render_mode = "ansi"
    /\ result.engine = "fallback"
    /\ result.render_mode = "mono"

(***************************************************************************)
(* C10.  The dashboard's empty panels list.                                *)
(***************************************************************************)
\* C10: render_terminal_dashboard called with an empty panels list raises a
\* validation error before any panel is rendered, and returns no result.
C10_EmptyPanelsRaise ==
    (DashboardCall /\ call.panels = <<>>)
        => /\ result.status = "raised"
           /\ result.exc = "ValueError"
           /\ result.msg = MsgPanels
           /\ panelLog = <<>> /\ plotextLog = <<>> /\ monoLog = <<>>

\* a dashboard called with a title and no panel
C10_Witness ==
    /\ DashboardCall
    /\ call.panels = <<>>
    /\ call.title.set
    /\ result.status = "raised"

(***************************************************************************)
(* C11.  The dashboard's fallback_reason.                                  *)
(***************************************************************************)
\* the fallback_reason values of the panels that returned one, in panel order
PanelReasons ==
    LET Has(r) == "fallback_reason" \in r.keys
        kept == SelectSeq(panelLog, Has)
    IN [i \in 1..Len(kept) |-> kept[i].fallback_reason]

\* the number of adapter calls of the panels that raised
FailedAdapterCalls == Cardinality({i \in DOMAIN plotextLog : ~plotextLog[i].ok})

\* C11: the dashboard's fallback_reason is the fallback_reason values of its
\* panels, in panel order, joined by "; "; the field is absent when no panel
\* has one; and every panel whose adapter call failed contributes one entry.
C11_DashboardReasons ==
    (DashboardCall /\ result.status = "returned")
        => /\ ("fallback_reason" \in result.keys) <=> (PanelReasons # <<>>)
           /\ PanelReasons # <<>>
                => result.fallback_reason = Join(<<";", " ">>, PanelReasons)
           /\ Len(PanelReasons) = FailedAdapterCalls

(***************************************************************************)
(* C12, C13.  Theme resolution.                                            *)
(***************************************************************************)
ThemeCall == call.op = "resolve_cli_theme"

\* C12: resolve_cli_theme returns, for None, every name and every mapping, a
\* theme with a non-empty colors list and a mono_symbol of exactly one
\* character; None and unknown names give dark_corporate_cli.
C12_ThemeTotal ==
    ThemeCall
        => /\ result.status = "returned"
           /\ result.value.colors # <<>>
           /\ Len(result.value.mono_symbol) = 1
           /\ (call.theme.t = "none"
               \/ (call.theme.t = "str"
                   /\ call.theme.s \notin {DarkCorporateCli, PastelStartupCli}))
                => /\ result.value.name = DarkCorporateCli
                   /\ result.value = DarkTheme

\* a mapping with an empty colors list and a glyph of two characters
C12_Witness ==
    /\ ThemeCall
    /\ call.theme.t = "dict"
    /\ call.theme.colors = PyList(<<>>)
    /\ call.theme.mono_symbol = PyStr(<<"a", "b">>)
    /\ result.value.mono_symbol = <<"a">>
    /\ result.value.colors = DarkTheme.colors

\* C13: for a mapping, resolve_cli_theme keeps the given colors, coerced to
\* strings, when they are a non-empty list and uses the default colors
\* otherwise; mono_symbol is the first character of the given glyph, or "#"
\* when the glyph is empty, absent or null; name is the given name, or
\* "custom_cli_theme" when absent.
C13_InlineTheme ==
    (ThemeCall /\ call.theme.t = "dict")
        => /\ result.value.colors =
                (IF call.theme.colors.t = "list" /\ call.theme.colors.items # <<>>
                 THEN [i \in 1..Len(call.theme.colors.items) |-> Str(call.theme.colors.items[i])]
                 ELSE DarkTheme.colors)
           /\ result.value.mono_symbol =
                (IF call.theme.mono_symbol.t \in {"absent", "none"}
                    \/ Str(call.theme.mono_symbol) = <<>>
                 THEN <<"#">>
                 ELSE <<Str(call.theme.mono_symbol)[1]>>)
           /\ call.theme.name.t = "str" => result.value.name = call.theme.name.s
           /\ call.theme.name.t = "absent" => result.value.name = CustomCliTheme

(***************************************************************************)
(* C14, C15.  The bars of the Monochrome Renderer.                         *)
(***************************************************************************)
BarCall == call.op = "_render_mono_chart" /\ result.status = "returned"

\* the positions of the line breaks of a text, and its i-th line
Breaks(text) == {k \in DOMAIN text : text[k] = "NL"}

Break(text, i) ==
    IF i = 0 THEN 0
    ELSE IF i > Cardinality(Breaks(text)) THEN Len(text) + 1
    ELSE CHOOSE k \in Breaks(text) : Cardinality({j \in Breaks(text) : j < k}) = i - 1

Line(text, i) == SubSeq(text, Break(text, i - 1) + 1, Break(text, i) - 1)

\* the number of glyphs in the row of the i-th value
Glyphs(i) == Cardinality({k \in DOMAIN Line(result.value, i) : Line(result.value, i)[k] = "#"})

\* the global maximum, from 0 as the renderer takes it
GlobalMax == IF \A i \in DOMAIN call.ys : call.ys[i] <= 0 THEN 0
             ELSE CHOOSE m \in {call.ys[i] : i \in DOMAIN call.ys} :
                      \A i \in DOMAIN call.ys : call.ys[i] <= m

BarWidth == IF call.width - 28 > 10 THEN call.width - 28 ELSE 10

\* C14: with a global maximum above 0, the bar of a row with a value above 0 has
\* round(value / max_value * bar_width) glyphs (a nearest integer, whichever
\* way a half is rounded), and 1 glyph when that is 0.
C14_BarIsRounded ==
    (BarCall /\ GlobalMax > 0)
        => \A i \in DOMAIN call.ys :
             call.ys[i] > 0
                => \/ 2 * call.ys[i] * BarWidth <= GlobalMax /\ Glyphs(i) = 1
                   \/ /\ 2 * call.ys[i] * BarWidth >= GlobalMax
                      /\ 2 * Abs(Glyphs(i) * GlobalMax - call.ys[i] * BarWidth) <= GlobalMax

\* C15: a row whose value is 0 or less shows no glyph; so when the global
\* maximum is 0 no row shows a glyph.
C15_NoGlyphForZero ==
    BarCall
        => \A i \in DOMAIN call.ys : call.ys[i] <= 0 => Glyphs(i) = 0

(***************************************************************************)
(* C16.  The sparkline.                                                    *)
(***************************************************************************)
SparkCall == call.op = "_sparkline"

\* the smallest and the largest of the values of the call
SparkLo == CHOOSE m \in {call.values[i] : i \in DOMAIN call.values} :
               \A i \in DOMAIN call.values : m <= call.values[i]

SparkHi == CHOOSE m \in {call.values[i] : i \in DOMAIN call.values} :
               \A i \in DOMAIN call.values : m >= call.values[i]

\* the level, from 0, of the i-th glyph returned
Level(i) == (CHOOSE k \in DOMAIN Ticks : Ticks[k] = result.value[i]) - 1

\* the glyphs are scaled: level trunc((v - min) / (max - min) * 7), so the
\* smallest value is at level 0 and the largest at level 7
SparkScaled ==
    \A i \in DOMAIN call.values :
        /\ Level(i) = ((call.values[i] - SparkLo) * 7) \div (SparkHi - SparkLo)
        /\ call.values[i] = SparkLo => Level(i) = 0
        /\ call.values[i] = SparkHi => Level(i) = 7

SparkFlat == \A i \in DOMAIN call.values : Level(i) = 0

\* a larger value never has a lower glyph
SparkMonotone ==
    \A i, j \in DOMAIN call.values : call.values[i] <= call.values[j] => Level(i) <= Level(j)

XCall == call.op = "_x_for_plotext"

\* the values of the call that float() converts
Coerced == {i \in DOMAIN call.values : float(call.values[i]).ok}

\* C17: _x_for_plotext returns [1..length] when values is empty, every value
\* as a float when all of them coerce, and [1..length] when any coercion fails.
C17_AllCoercedOrPositions ==
    XCall
        => /\ result.status = "returned"
           /\ result.value =
                IF call.values # <<>> /\ Coerced = DOMAIN call.values
                THEN [i \in DOMAIN call.values |-> float(call.values[i]).val]
                ELSE [i \in 1..call.length |-> i * 10]

SafeCall == call.op = "_safe_float"

\* C18: _safe_float never raises; it returns the float of a value that
\* converts and 0.0 for every value whose conversion is an error.
C18_SafeFloatTotal ==
    SafeCall
        => /\ result.status = "returned"
           /\ result.value = IF float(call.value).ok THEN float(call.value).val ELSE 0

(***************************************************************************)
(* C19.  The size and the title of the panels.                             *)
(***************************************************************************)
\* the title panel i of the call must be rendered with
TitleOfPanel(i) ==
    IF call.panels[i].title.t = "str" /\ call.panels[i].title.s # <<>>
    THEN Value(call.panels[i].title.s)
    ELSE Value(<<"P", "a", "n", "e", "l", " ">> \o NatText(i))

\* C19: every panel of a dashboard is rendered with the height
\* max(10, total_height // panel_count) and the width max(40, total_width),
\* never below 10 and 40, and a panel whose title is unset or empty is given
\* the title "Panel <1-based index>".
C19_PanelSizeAndTitle ==
    DashboardCall
        => /\ Len(panelCalls) <= Len(call.panels)
           /\ result.status = "returned" => Len(panelCalls) = Len(call.panels)
           /\ \A i \in DOMAIN panelCalls :
                /\ panelCalls[i].height = Max(10, call.height \div Len(call.panels))
                /\ panelCalls[i].height >= 10
                /\ panelCalls[i].width = Max(40, call.width)
                /\ panelCalls[i].width >= 40
                /\ panelCalls[i].title = TitleOfPanel(i)

\* two panels in a 30 x 15 dashboard, the first without a title and the second
\* with an empty one: they are rendered 40 wide and 10 high (15 // 2 is 7)
\* under the titles "Panel 1" and "Panel 2"
C19_Witness ==
    /\ DashboardCall
    /\ Len(call.panels) = 2
    /\ call.width = 30
    /\ call.height = 15
    /\ call.panels[1].title = Absent
    /\ call.panels[2].title = PyStr(<<>>)
    /\ result.status = "returned"
    /\ panelCalls = << [title |-> Value(<<"P", "a", "n", "e", "l", " ", "1">>),
                        width |-> 40, height |-> 10],
                       [title |-> Value(<<"P", "a", "n", "e", "l", " ", "2">>),
                        width |-> 40, height |-> 10] >>

(***************************************************************************)
(* C20.  The response of the terminal tools.                               *)
(***************************************************************************)
ToolCall == call.op = "call_tool"

\* the number of lines of a text
LineCount(text) == Cardinality(Breaks(text)) + 1

\* the text is an object written one member per line
IsEnvelope(text) ==
    /\ LineCount(text) >= 3
    /\ Line(text, 1) = <<"{">>
    /\ Line(text, LineCount(text)) = <<"}">>
    /\ \A i \in 2..(LineCount(text) - 1) :
            /\ Len(Line(text, i)) >= 7
            /\ SubSeq(Line(text, i), 1, 3) = <<" ", " ", "DQUOTE">>
            /\ (Line(text, i)[Len(Line(text, i))] = ",") <=> (i < LineCount(text) - 1)

\* the position of the quote that closes the key of a member line
KeyEnd(line) == CHOOSE k \in 4..Len(line) : line[k] = "DQUOTE" /\ \A j \in 4..(k - 1) : line[j] # "DQUOTE"

MemberKey(line) == SubSeq(line, 4, KeyEnd(line) - 1)

\* the value of a member line, without the separating comma
MemberValue(line) ==
    SubSeq(line, KeyEnd(line) + 3, Len(line) - (IF line[Len(line)] = "," THEN 1 ELSE 0))

EnvelopeKeys(text) == {MemberKey(Line(text, i)) : i \in 2..(LineCount(text) - 1)}

\* the value written under a key of the envelope
Written(text, key) ==
    MemberValue(Line(text, CHOOSE i \in 2..(LineCount(text) - 1) : MemberKey(Line(text, i)) = Spelled(key)))

\* the key the tool of the call writes the rendered body under
ToolBodyKey == IF call.name = "create_terminal_chart" THEN "chart" ELSE "dashboard"

ToolBody == IF call.name = "create_terminal_chart" THEN rendered[1].chart ELSE rendered[1].dashboard

\* the keys the envelope of the call must have
ToolKeys ==
    {"success", "render_mode", "engine", "theme", ToolBodyKey}
        \cup (IF "fallback_reason" \in rendered[1].keys THEN {"fallback_reason"} ELSE {})

\* the call asks for the bare text
ToolRaw == ~call.arguments.raw_output.set \/ call.arguments.raw_output.val

\* C20: for create_terminal_chart and create_terminal_dashboard, call_tool
\* returns the bare rendered text when raw_output is true or absent, and when
\* raw_output is false a JSON envelope with success, render_mode, engine, theme
\* and the rendered body, plus fallback_reason exactly when the renderer's
\* result has one.  (A renderer that raises gives the failure envelope.)
C20_RawOrEnvelope ==
    ToolCall
        => /\ result.status = "returned"
           /\ Len(rendered) = 1
           /\ rendered[1].status = "returned" /\ ToolRaw => result.value = ToolBody
           /\ rendered[1].status = "returned" /\ ~ToolRaw
                => /\ IsEnvelope(result.value)
                   /\ EnvelopeKeys(result.value) = {Spelled(k) : k \in ToolKeys}
                   /\ Written(result.value, "success") = <<"t", "r", "u", "e">>
                   /\ Written(result.value, "render_mode")
                        = JsonString(Spelled(rendered[1].render_mode))
                   /\ Written(result.value, "engine") = JsonString(Spelled(rendered[1].engine))
                   /\ Written(result.value, "theme") = JsonString(rendered[1].theme)
                   /\ Written(result.value, ToolBodyKey) = JsonString(ToolBody)
                   /\ "fallback_reason" \in rendered[1].keys
                        => Written(result.value, "fallback_reason")
                             = JsonString(rendered[1].fallback_reason)
           /\ rendered[1].status = "raised"
                => /\ IsEnvelope(result.value)
                   /\ EnvelopeKeys(result.value) = {Spelled("success"), Spelled("error")}
                   /\ Written(result.value, "success") = <<"f", "a", "l", "s", "e">>

\* a chart asked with raw_output false whose adapter failed with "boom": the
\* envelope has the six keys and the reason
C20_Witness ==
    /\ ToolCall
    /\ call.name = "create_terminal_chart"
    /\ call.arguments.raw_output = Value(FALSE)
    /\ rendered[1].status = "returned"
    /\ rendered[1].engine = "fallback"
    /\ "fallback_reason" \in rendered[1].keys
    /\ LineCount(result.value) = 8
    /\ Line(result.value, 7)
         = <<" ", " ", "DQUOTE", "f", "a", "l", "l", "b", "a", "c", "k", "_", "r", "e", "a",
             "s", "o", "n", "DQUOTE", ":", " ", "DQUOTE", "b", "o", "o", "m", "DQUOTE">>

(***************************************************************************)
(* C21.  Validation failures at the tool boundary.                         *)
(***************************************************************************)
\* the text mode of the call is given and is not one of the three modes
ToolBadTextMode ==
    /\ call.arguments.text_mode.set
    /\ call.arguments.text_mode.val \notin {"auto", "plotext_stripped", "fallback"}

\* a panel whose kind is missing or unsupported, or whose data is missing or empty
BadPanel(panel) ==
    \/ panel.type.t # "str"
    \/ panel.type.s \notin {LineKind, BarKind, ScatterKind, AreaKind}
    \/ ~panel.has_data
    \/ panel.data = <<>>

\* the arguments of the call fail validation: bad or missing chart kind, empty
\* or missing data, empty or missing panels, invalid text_mode
ToolInvalid ==
    \/ ToolBadTextMode
    \/ /\ call.name = "create_terminal_chart"
       /\ \/ ~call.arguments.type.set
          \/ call.arguments.type.val \notin {LineKind, BarKind, ScatterKind, AreaKind}
          \/ ~call.arguments.data.set
          \/ call.arguments.data.val = <<>>
    \/ /\ call.name = "create_terminal_dashboard"
       /\ \/ ~call.arguments.panels.set
          \/ call.arguments.panels.val = <<>>
          \/ \E i \in DOMAIN call.arguments.panels.val : BadPanel(call.arguments.panels.val[i])

\* the response is the structured failure {success: false, error: <message>}
ToolFailure ==
    /\ result.status = "returned"
    /\ IsEnvelope(result.value)
    /\ EnvelopeKeys(result.value) = {Spelled("success"), Spelled("error")}
    /\ Written(result.value, "success") = <<"f", "a", "l", "s", "e">>

\* C21: a terminal tool call whose arguments fail validation (bad or missing
\* chart kind, empty or missing data, empty panels, invalid text_mode) returns
\* the structured failure, also when raw_output is true; no invalid or missing
\* field is replaced by a default.
C21_InvalidArgumentsFail ==
    ToolCall /\ ToolInvalid => ToolFailure /\ rendered[1].status = "raised"

(***************************************************************************)
(* C22.  The environment is read at every call.                            *)
(***************************************************************************)
\* the color decision for the arguments of a call under an environment
ColorUnder(e, c) ==
    /\ c.use_color
    /\ ~c.force_mono
    /\ ~(e.NO_COLOR.set /\ e.NO_COLOR.val # <<>>)
    /\ ~(e.TERM.set /\ Lower(e.TERM.val) = <<"d", "u", "m", "b">>)

\* the tier of a result is the one the decision gives when the adapter succeeded
TierFollows(e, c, r) ==
    r.status = "returned" /\ r.engine # "fallback"
        => /\ r.render_mode = (IF ColorUnder(e, c) THEN "ansi" ELSE "mono")
           /\ r.engine = (IF ColorUnder(e, c) THEN "plotext" ELSE "plotext-stripped")

\* C22: NO_COLOR and TERM are read anew on every render call: in a sequence of
\* render_terminal_chart calls interleaved with changes of the variables, the
\* tier of each call follows the values the variables hold at that call.
C22_EnvironmentReadAtCall ==
    /\ InProcess => TierFollows(env, call, result)
    /\ session # <<>> => TierFollows(session[1].env, session[1].call, session[1].result)

\* the same call made twice, NO_COLOR being unset between the two calls: the
\* first is stripped, the second is colored
C22_Witness ==
    /\ InProcess
    /\ session # <<>>
    /\ session[1].call.data = call.data
    /\ session[1].call.use_color /\ call.use_color
    /\ session[1].call.text_mode = "auto" /\ call.text_mode = "auto"
    /\ session[1].env.NO_COLOR = Value(<<"1">>)
    /\ env.NO_COLOR = Unset
    /\ session[1].env.TERM = env.TERM
    /\ session[1].result.engine = "plotext-stripped"
    /\ result.engine = "plotext"

(***************************************************************************)
(* C23.  Rendering does not depend on earlier calls.                       *)
(***************************************************************************)
\* the result the call gives when it is the first call of the process
FirstResult ==
    render_terminal_chart(call.chart_type, call.data, call.title, call.x_label,
                          call.y_label, call.width, call.height, call.theme,
                          call.use_color, call.force_mono, call.text_mode,
                          BackendOk(show(Drawn(<<>>, call.chart_type, call.data)))).result

\* the arguments of a call, without the canvas it found
Arguments(c) ==
    <<c.chart_type, c.data, c.title, c.x_label, c.y_label, c.width, c.height, c.theme,
      c.use_color, c.force_mono, c.text_mode>>

SeriesCall == call # Idle /\ call.op = "_render_mono_chart" /\ "data" \in DOMAIN call

\* the number of rows of a body
RowCount(text) == IF text = <<>> THEN 0 ELSE Cardinality(Breaks(text)) + 1

\* every y value of the call, in series order, then sample order (in tenths)
AllY == Concat([i \in 1..Len(call.data) |-> [j \in 1..Len(call.data[i].y.items) |-> call.data[i].y.items[j].n * 10]])

RowCap == Max(5, call.height * 2)

EndsWith(text, tail) == Len(text) >= Len(tail) /\ SubSeq(text, Len(text) - Len(tail) + 1, Len(text)) = tail

\* C24: in a monochrome bar chart every y value of every series has its row, in
\* series order and then sample order, up to the row cap max(5, height * 2),
\* whether or not the series has an x label for it.
C24_EveryValueHasARow ==
    (SeriesCall /\ call.chart_type = BarKind /\ result.status = "returned")
        => /\ RowCount(result.value) = Min(RowCap, Len(AllY))
           /\ \A k \in 1..Min(RowCap, Len(AllY)) :
                 EndsWith(Line(result.value, k), <<" ">> \o Format2f(AllY[k]))

SparkKinds == {LineKind, ScatterKind, AreaKind}

NameOf(i) == Str(Get(call.data[i].name, PyStr(SeriesPrefix \o NatText(i))))

\* the series-name column: the name, padded or cut to 18 characters
NameColumn(i) == PadRight(Prefix(NameOf(i), 18), 18)

YOf(i) == [j \in 1..Len(call.data[i].y.items) |-> call.data[i].y.items[j].n * 10]

\* C25: a monochrome line, scatter or area chart has one row per series; the row
\* starts with the series name in a column of exactly 18 characters (padded or
\* truncated), followed by "(no data)" when y is empty and by the sparkline
\* with min and max otherwise.
C25_OneRowPerSeries ==
    (SeriesCall /\ call.chart_type \in SparkKinds /\ result.status = "returned")
        => /\ RowCount(result.value) = Len(call.data)
           /\ \A i \in DOMAIN call.data :
                 IF YOf(i) = <<>>
                 THEN Line(result.value, i) = NameColumn(i) \o NoData
                 ELSE Line(result.value, i) = NameColumn(i) \o <<" ">> \o _sparkline(YOf(i)) \o MinLabel
                         \o Format2f(SeqMin(YOf(i))) \o MaxLabel \o Format2f(SeqMax(YOf(i)))

\* an ANSI sequence starts somewhere in the text
HasAnsi(text) == \E i \in DOMAIN text : AnsiMatchEnd(text, i) > 0

\* C26: the chart body of a result with render_mode "mono" holds no ANSI
\* escape sequence, whatever the adapter printed and whatever the title is;
\* stripping a stripped body once more changes nothing.
C26_MonoBodyHasNoAnsi ==
    (ChartCall /\ result.status = "returned" /\ result.render_mode = "mono")
        => /\ ~HasAnsi(result.chart)
           /\ result.engine = "plotext-stripped" => strip_ansi(result.chart) = result.chart

PanelKind(i) == IF call.panels[i].type = Absent THEN LineKind ELSE call.panels[i].type.s

PanelData(i) == IF call.panels[i].has_data THEN call.panels[i].data ELSE <<>>

\* the panel fails validation: an unsupported kind, or empty or missing data
PanelInvalid(i) ==
    \/ PanelKind(i) \notin {LineKind, BarKind, ScatterKind, AreaKind}
    \/ PanelData(i) = <<>>

StartsWith(text, head) == Len(text) >= Len(head) /\ SubSeq(text, 1, Len(head)) = head

\* the blocks of the panels rendered so far, joined by a blank line
PanelBlocks == Join(<<"NL", "NL">>, [i \in DOMAIN panelLog |-> panelLog[i].chart])

\* C27: a dashboard call with a panel that fails validation raises and returns
\* no body, however many panels rendered before; a call that returns has one
\* block per panel, in panel order, at the end of its body.
C27_NoPartialDashboard ==
    DashboardCall
        => /\ (\E i \in DOMAIN call.panels : PanelInvalid(i)) => result.status = "raised"
           /\ result.status = "raised" => result.dashboard = <<>> /\ "dashboard" \notin result.keys
           /\ result.status = "returned"
                => /\ Len(panelLog) = Len(call.panels)
                   /\ EndsWith(result.dashboard, PanelBlocks)
                   /\ call.title = Unset => result.dashboard = PanelBlocks
                   /\ \A i \in DOMAIN panelLog :
                         panelLog[i].engine = "fallback"
                            => StartsWith(panelLog[i].chart, TitleOfPanel(i).val)

\* one panel rendered, then a panel that fails validation: the call raises and
\* nothing is returned
C27_Witness ==
    /\ DashboardCall
    /\ Len(call.panels) = 2
    /\ ~PanelInvalid(1) /\ PanelInvalid(2)
    /\ Len(panelLog) = 1 /\ panelLog[1].chart # <<>>
    /\ result.status = "raised" /\ result.exc = "ValueError"
    /\ result.dashboard = <<>>

\* two valid panels: the body is the two blocks, in order
C27_WitnessReturned ==
    /\ DashboardCall
    /\ Len(call.panels) = 2 /\ call.panels[1] # call.panels[2]
    /\ call.title = Unset
    /\ result.status = "returned"
    /\ result.dashboard = panelLog[1].chart \o <<"NL", "NL">> \o panelLog[2].chart
    /\ panelLog[1].chart # panelLog[2].chart

InSequence(i) == loop.tasks[i].pc \in {"cleared", "redirected", "shown"}

\* the labels of the series of task i, as its own render draws them
OwnLabels(i) == [k \in 1..Len(loop.tasks[i].data) |-> PlotLabel(loop.tasks[i].data[k], k)]

\* C28: with several tool calls pending in the server, the clear, draw and
\* capture steps of one call are not interleaved with those of another: a call
\* inside the sequence is the running one, at most one call is inside it, the
\* canvas holds only what that call has drawn, standard output is redirected
\* only for it, and every call captures the plot of its own series.
C28_RenderNotInterleaved ==
    /\ \A i \in DOMAIN loop.tasks :
          /\ InSequence(i) => loop.running = i
          /\ loop.tasks[i].pc = "cleared"
                => canvas = SubSeq(OwnLabels(i), 1, loop.tasks[i].drawn)
          /\ loop.tasks[i].pc \in {"redirected", "shown"}
                => loop.stdout = i /\ canvas = OwnLabels(i)
          /\ loop.tasks[i].pc = "shown" => loop.tasks[i].out = show(OwnLabels(i))
          /\ loop.tasks[i].pc = "done" => loop.tasks[i].text = RStrip(show(OwnLabels(i)))
    /\ Cardinality({i \in DOMAIN loop.tasks : InSequence(i)}) <= 1
    /\ (\A i \in DOMAIN loop.tasks : loop.tasks[i].pc \notin {"redirected", "shown"})
          => loop.stdout = 0

\* a second call arrived while the first was between clear and capture; both
\* have returned, each with the plot of its own series
C28_Witness ==
    /\ Len(loop.tasks) = 2
    /\ loop.tasks[2].arrived = 1
    /\ loop.tasks[1].data # loop.tasks[2].data
    /\ loop.tasks[1].pc = "done" /\ loop.tasks[2].pc = "done"
    /\ loop.tasks[1].text = show(OwnLabels(1))
    /\ loop.tasks[2].text = show(OwnLabels(2))
    /\ loop.tasks[1].text # loop.tasks[2].text

\* a result's render_mode, engine and fallback_reason agree
TierConsistent(r) ==
    /\ r.render_mode \in {"ansi", "mono"}
    /\ r.engine \in {"plotext", "plotext-stripped", "fallback"}
    /\ (r.render_mode = "ansi") <=> (r.engine = "plotext")
    /\ "fallback_reason" \in r.keys => r.engine = "fallback"
    /\ {"render_mode", "engine"} \subseteq r.keys

\* C29: every result that render_terminal_chart returns for a panel, and the
\* result that render_terminal_dashboard returns, is tier-consistent:
\* render_mode is ansi or mono, engine is plotext, plotext-stripped or
\* fallback, render_mode is ansi exactly when engine is plotext, and
\* fallback_reason is present only with engine fallback.
C29_TierConsistent ==
    DashboardCall
        => /\ \A i \in DOMAIN panelLog : TierConsistent(panelLog[i])
           /\ result.status = "returned" => TierConsistent(result)

\* a colored panel and a panel whose adapter failed: the dashboard is mono,
\* engine fallback, with the reason
C29_Witness ==
    /\ DashboardCall
    /\ result.status = "returned"
    /\ Len(panelLog) = 2
    /\ panelLog[1].engine = "plotext" /\ panelLog[1].render_mode = "ansi"
    /\ panelLog[2].engine = "fallback" /\ "fallback_reason" \in panelLog[2].keys
    /\ result.engine = "fallback" /\ result.render_mode = "mono"
    /\ "fallback_reason" \in result.keys

ImageCall == call # Idle /\ call.op = "call_tool" /\ "save_to_disk" \in DOMAIN call

\* C30: for an image tool call with save_to_disk set, whatever the filename
\* argument, the sanitized name is not empty, has only characters of
\* [A-Za-z0-9._-], neither starts nor ends with "." or "_", and the file that
\* is written is a direct entry of the OUTPUT_DIR directory.
C30_FileInsideOutputDir ==
    (ImageCall /\ call.save_to_disk)
        => /\ result.filename # <<>>
           /\ \A k \in DOMAIN result.filename : result.filename[k] \in SafeChars
           /\ result.filename[1] \notin {".", "_"}
           /\ result.filename[Len(result.filename)] \notin {".", "_"}
           /\ \A i \in DOMAIN result.saved_files :
                 /\ Components(result.saved_files[i])
                       = Components(call.output_dir.val)
                            \o <<result.filename \o Extension(call.format)>>
                 /\ \A j \in DOMAIN Components(result.saved_files[i]) :
                       Components(result.saved_files[i])[j] # <<".", ".">>
           /\ Truthy(call.output_dir) => Len(result.saved_files) = 1

\* the file name "../" with OUTPUT_DIR /out: the fallback name is used and the
\* file is /out/line_chart.svg
C30_Witness ==
    /\ ImageCall /\ call.save_to_disk
    /\ call.filename = Value(<<".", ".", "/">>)
    /\ call.name = CreateLineChart
    /\ call.format = "svg"
    /\ call.output_dir = Value(<<"/", "o", "u", "t">>)
    /\ result.filename = <<"l", "i", "n", "e", "_", "c", "h", "a", "r", "t">>
    /\ result.saved_files = << <<"/", "o", "u", "t", "/", "l", "i", "n", "e", "_", "c", "h", "a", "r", "t", ".", "s", "v", "g">> >>

====
